---- MODULE Spec2Model ----
(***************************************************************************)
(* Model of the "ob" transfer service: the POST /transfer handler          *)
(* (routes.ts), the lock coordinator (ThreadSafeMap.ts), the ledger store  *)
(* (db.ts, reached through a pg connection pool) and the signature codec   *)
(* (SignedTransfer.ts, crypto.ts).                                         *)
(*                                                                         *)
(* One action is one run of the handler between two awaits: the resolution *)
(* of the awaited promise, followed by the synchronous code up to the next *)
(* await (which includes handing the next query to the pool).              *)
(***************************************************************************)
EXTENDS Integers, Sequences, FiniteSets, TLC

\* ------------------------------------------------------------------------
\* Bounds
\* ------------------------------------------------------------------------
NumReq == 2        \* transfer requests that may be submitted
MaxAmount == 2     \* amounts of the submitted transfers are 1..MaxAmount
InitBalance == 3   \* amount of every balance row at start
MaxClock == 1      \* Date.now() ranges over 0..MaxClock
MaxFailures == 1   \* store queries that the environment may make fail
MaxReverts == 2    \* calls of revertTransactions
MaxOps == 2        \* calls of DB.setBalance and GET requests
NumCallers == 3    \* callers of one ThreadSafeMap

\* new Pool({...}) is given no max: pg's default of 10 connections
PoolMax == 10

Reqs == 1..NumReq
Clients == 1..PoolMax
\* the users of the pool: the transfer requests and the revertTransactions call
Rev == NumReq + 1
Rev2 == NumReq + 2
Invocations == {Rev, Rev2}
\* the caller of DB.setBalance or the handler of a GET request
Op == NumReq + 3
Users == Reqs \cup Invocations \cup {Op}
Callers == 1..NumCallers

\* ------------------------------------------------------------------------
\* Data: addresses, keys, tokens
\* ------------------------------------------------------------------------
\* Addresses "a", "b", "c" own a balance row; "n" is a well-formed address
\* without a row (the tests' `nemo`).
Holders == {"a", "b", "c"}
Addresses == Holders \cup {"n"}
Tokens == {"T"}
ChainId == 42

\* privateKeyToAccount: the address of a private key.  Key "k_x" belongs to
\* address "x"; the solver has its own key pair.
PrivateKeys == {"k_a", "k_b", "k_c", "k_n", "k_solver"}
addressOf(k) ==
    CASE k = "k_a" -> "a"
      [] k = "k_b" -> "b"
      [] k = "k_c" -> "c"
      [] k = "k_n" -> "n"
      [] k = "k_solver" -> "solver"
      [] OTHER -> "none"
keyOf(x) ==
    CASE x = "a" -> "k_a"
      [] x = "b" -> "k_b"
      [] x = "c" -> "k_c"
      [] x = "n" -> "k_n"
      [] OTHER -> "k_solver"

solver == [address |-> "solver", private |-> "k_solver"]

\* ------------------------------------------------------------------------
\* Data: JSON values of a request body
\* ------------------------------------------------------------------------
JsStr(x) == [t |-> "string", s |-> x, n |-> 0]
JsNum(k) == [t |-> "number", s |-> "", n |-> k]
JsUndef == [t |-> "undefined", s |-> "", n |-> 0]

\* The canonical payload: JSON.stringify of the transfer with refund and
\* signature set to undefined (undefined members are dropped).
NoMsg == [keys |-> <<>>, sender |-> 0, token |-> 0, targetChain |-> 0]

\* A signature: `key` signed `msg`.  A string that is no signature at all
\* (the tests' 'UNSIGNED') has kind "malformed".
Sig(k, m) == [kind |-> "sig", key |-> k, msg |-> m]
UNSIGNED == [kind |-> "malformed", key |-> "", msg |-> NoMsg]

\* crypto.sign
crypto_sign(privateKey, message) == Sig(privateKey, message)

\* viem's isAddress: the well-formed addresses of the model
isAddress(x) == x \in Addresses \cup {solver.address}

\* crypto.verify = viem verifyMessage: getAddress(address) raises on a
\* malformed address, recovering the signer raises on a malformed signature;
\* otherwise the address recovered from (signature, message) is compared
\* with `address`.  The result is "true", "false" or "throw".
crypto_verify(address, signature, message) ==
    IF ~isAddress(address) \/ signature.kind = "malformed" THEN "throw"
    ELSE IF signature.msg = message /\ addressOf(signature.key) = address THEN "true"
    ELSE "false"

\* ------------------------------------------------------------------------
\* Data: request bodies (dto/Transfer.ts)
\* ------------------------------------------------------------------------
TokenObj(address, amount) == [t |-> "object", address |-> address, amount |-> amount]
NoToken == [t |-> "undefined", address |-> JsUndef, amount |-> JsUndef]
ChainObj(chainId, receiver) == [t |-> "object", chainId |-> chainId, receiver |-> receiver]
NoChain == [t |-> "undefined", chainId |-> JsUndef, receiver |-> JsUndef]
SigStr(sig) == [t |-> "string", sig |-> sig]
NoSig == [t |-> "undefined", sig |-> UNSIGNED]

\* dto/Refund.ts; a Transfer without refund has the member undefined
RefundObj(chainId, tx, signedTx) ==
    [t |-> "object", chainId |-> chainId, tx |-> tx, signedTx |-> signedTx]
NoRefund == [t |-> "undefined", chainId |-> JsUndef, tx |-> JsUndef, signedTx |-> JsUndef]

\* The own properties of an object in the order of their creation: of an
\* object literal written as the tests write it, and of a SignedTransfer
\* (the order of the assignments in its constructor).
LiteralKeys == <<"sender", "token", "targetChain", "signature">>
ClassKeys == <<"sender", "token", "targetChain", "refund", "signature">>

MkBody(sender, token, targetChain, signature) ==
    [sender |-> sender, token |-> token, targetChain |-> targetChain,
     refund |-> NoRefund, signature |-> signature, keys |-> LiteralKeys]
NoBody == MkBody(JsUndef, NoToken, NoChain, NoSig)

\* A Transfer object as a client builds it, not yet signed
Unsigned(s, r, tok, amt) ==
    MkBody(JsStr(s), TokenObj(JsStr(tok), JsNum(amt)), ChainObj(JsNum(ChainId), JsStr(r)), SigStr(UNSIGNED))

\* isValidTransfer: "true", "false", or "throw" when a member of a missing
\* token / targetChain object is dereferenced.  The conjuncts are evaluated
\* left to right and stop at the first false one.
isValidTransfer(obj) ==
    IF obj.sender.t # "string" THEN "false"
    ELSE IF obj.token.t = "undefined" THEN "throw"
    ELSE IF obj.token.address.t # "string" THEN "false"
    ELSE IF obj.token.amount.t # "number" THEN "false"
    ELSE IF obj.targetChain.t = "undefined" THEN "throw"
    ELSE IF obj.targetChain.receiver.t # "string" THEN "false"
    ELSE IF obj.signature.t # "string" THEN "false"
    ELSE "true"

\* interface Transfer: every required member present with its type, the
\* optional refund absent or a Refund (chainId: number, tx: string,
\* signedTx: string; a tx made by signForRefund is a string)
ShapeOK(obj) ==
    /\ obj.sender.t = "string"
    /\ obj.token.t = "object"
    /\ obj.token.address.t = "string"
    /\ obj.token.amount.t = "number"
    /\ obj.targetChain.t = "object"
    /\ obj.targetChain.chainId.t = "number"
    /\ obj.targetChain.receiver.t = "string"
    /\ \/ obj.refund.t = "undefined"
       \/ /\ obj.refund.t = "object"
          /\ obj.refund.chainId.t = "number"
          /\ IF "t" \in DOMAIN obj.refund.tx THEN obj.refund.tx.t = "string" ELSE TRUE
          /\ obj.refund.signedTx.t = "string"
    /\ obj.signature.t = "string"

\* JSON.stringify({...transfer, refund: undefined, signature: undefined}):
\* the spread keeps the properties of the transfer in their order, the
\* undefined members are left out, the others are written in that order
\* with their values (a string and a number are written differently).
sensitiveInfo(transfer) ==
    LET written(k) ==
            CASE k = "sender" -> transfer.sender.t # "undefined"
              [] k = "token" -> transfer.token.t # "undefined"
              [] k = "targetChain" -> transfer.targetChain.t # "undefined"
              [] OTHER -> FALSE
    IN [keys |-> SelectSeq(transfer.keys, written),
        sender |-> transfer.sender,
        token |-> transfer.token,
        targetChain |-> transfer.targetChain]

\* new SignedTransfer(transfer): the five members are copied one by one
SignedTransfer_new(transfer) == [transfer EXCEPT !.keys = ClassKeys]

\* SignedTransfer.sign
SignedTransfer_sign(transfer, senderPrivateKey) ==
    SignedTransfer_new(
        [transfer EXCEPT !.signature =
            SigStr(crypto_sign(senderPrivateKey, sensitiveInfo(transfer)))])

\* SignedTransfer.verify
SignedTransfer_verify(transfer) ==
    crypto_verify(transfer.sender.s, transfer.signature.sig, sensitiveInfo(transfer))

\* keccak256 of JSON.stringify({...transfer, refund: undefined}): the members
\* of the transfer in their order, the signature in its place among them,
\* refund and the undefined members left out; the hash is modelled as
\* collision free.
txHash(transfer) ==
    LET written(k) ==
            CASE k = "sender" -> transfer.sender.t # "undefined"
              [] k = "token" -> transfer.token.t # "undefined"
              [] k = "targetChain" -> transfer.targetChain.t # "undefined"
              [] k = "signature" -> transfer.signature.t # "undefined"
              [] OTHER -> FALSE
    IN [msg |-> [sensitiveInfo(transfer) EXCEPT !.keys = SelectSeq(transfer.keys, written)],
        sig |-> transfer.signature]

\* the tx of a refund, `${now}:${hash}`
RefundTx(ts, hash) == [now |-> ts, hash |-> hash]

\* a signForRefund that attaches nothing
signForRefund_Nothing(transfer, solverServicePrivateKey, ts) == NoRefund

\* SignedTransfer.signForRefund, with the value Date.now() gave it
signForRefund(transfer, solverServicePrivateKey, ts) ==
    RefundObj(transfer.targetChain.chainId,
              RefundTx(ts, txHash(transfer)),
              SigStr(crypto_sign(solverServicePrivateKey, RefundTx(ts, txHash(transfer)))))

\* a verifyRefund that takes the message from the signature
verifyRefund_IgnoresTx(refund, soverServiceAddress) ==
    crypto_verify(soverServiceAddress, refund.signedTx.sig, refund.signedTx.sig.msg)

\* SignedTransfer.verifyRefund
verifyRefund(refund, soverServiceAddress) ==
    crypto_verify(soverServiceAddress, refund.signedTx.sig, refund.tx)

\* the lock key `${sender}:${receiver}:${token.address}`
lockKeyOf(transfer) ==
    transfer.sender.s \o ":" \o transfer.targetChain.receiver.s \o ":" \o transfer.token.address.s

\* ------------------------------------------------------------------------
\* State
\* ------------------------------------------------------------------------
VARIABLES
    pc,            \* where each request's handler is suspended
    body,          \* req.body of each request
    loc,           \* handler locals: tx_ts and the two balances read under the lock
    resp,          \* the response sent for each request
    LOCK_MAP,      \* routes.ts LOCK_MAP: lock key -> boolean
    balances,      \* committed rows of table balances: <<address, token>> -> amount
    transactions,  \* committed rows of table transactions
    conn,          \* the pool's connections: session state of each
    idle,          \* pg-pool _idle: idle connections, last released last
    pendingQueue,  \* pg-pool _pendingQueue: requests waiting for a connection
    cl,            \* the connection a request's query is running on (0: none)
    now,           \* Date.now()
    failures,      \* store queries the environment has made fail
    rev,           \* DB.revertTransactions: where the call is suspended, its locals
    overlapped,    \* history: some call started while another one was running
    threadSafeMap, \* a ThreadSafeMap<string, boolean> on its own: its map
    mutex,         \* its mutex: the callers waiting in runExclusive, first first
    calls,         \* the call of each caller of that map, and what it returned
    signed         \* a transfer signed, changed and verified outside the service

serviceVars == <<pc, body, loc, resp, LOCK_MAP, balances, transactions, conn, idle,
                 pendingQueue, cl, now, failures, rev, overlapped>>
unitVars == <<threadSafeMap, mutex, calls, signed>>
vars == <<serviceVars, unitVars>>

EmptyFn == [k \in {} |-> 0]
Upd(f, k, v) == [x \in DOMAIN f \cup {k} |-> IF x = k THEN v ELSE f[x]]
Without(f, k) == [x \in DOMAIN f \ {k} |-> f[x]]
Last(q) == q[Len(q)]
Front(q) == SubSeq(q, 1, Len(q) - 1)

\* ------------------------------------------------------------------------
\* Ledger store: PostgreSQL sessions reached through pg's Pool
\* ------------------------------------------------------------------------
\* A connection is a session: after BEGIN its writes stay private (wbal:
\* balances written, wtx: rows inserted, wrev: committed rows it has marked
\* reverted) until COMMIT; outside a transaction every statement commits
\* itself.
FreshConn == [live |-> TRUE, inTx |-> FALSE, wbal |-> EmptyFn, wtx |-> {}, wrev |-> {}]
DeadConn == [live |-> FALSE, inTx |-> FALSE, wbal |-> EmptyFn, wtx |-> {}, wrev |-> {}]

\* The statements the code sends
QSelect(address, token) ==
    [op |-> "select", key |-> <<address, token>>, amount |-> 0, rec |-> {}, ids |-> {}]
QUpdate(address, token, amount) ==
    [op |-> "update", key |-> <<address, token>>, amount |-> amount, rec |-> {}, ids |-> {}]
QInsert(rec) == [op |-> "insert", key |-> <<"", "">>, amount |-> 0, rec |-> {rec}, ids |-> {}]
QBegin == [op |-> "begin", key |-> <<"", "">>, amount |-> 0, rec |-> {}, ids |-> {}]
QCommit == [op |-> "commit", key |-> <<"", "">>, amount |-> 0, rec |-> {}, ids |-> {}]
\* SELECT ... from transactions WHERE reverted = FALSE ORDER BY tx_ts DESC
QList == [op |-> "list", key |-> <<"", "">>, amount |-> 0, rec |-> {}, ids |-> {}]
\* UPDATE transactions SET reverted = true WHERE tx_id = $1
QMark(tx_id) == [op |-> "mark", key |-> <<"", "">>, amount |-> 0, rec |-> {}, ids |-> {tx_id}]

Transaction(tx_ts, tx_id, sender, receiver, token, amount, reverted) ==
    [tx_ts |-> tx_ts, tx_id |-> tx_id, sender |-> sender, receiver |-> receiver,
     token |-> token, amount |-> amount, reverted |-> reverted]

\* primary key (tx_ts, tx_id) of table transactions
SamePK(t1, t2) == t1.tx_ts = t2.tx_ts /\ t1.tx_id = t2.tx_id

\* rows with reverted set to true
Marked(rows) == {[t EXCEPT !.reverted = TRUE] : t \in rows}

\* What session c sees of table transactions: the committed rows, those it
\* marked in their marked state, and the rows it inserted
TxView(cn, txs, c) == (txs \ cn[c].wrev) \cup Marked(cn[c].wrev) \cup cn[c].wtx

\* What session c sees of table balances: the committed rows overlaid with
\* its own uncommitted writes
View(cn, bal, c) ==
    [k \in DOMAIN bal |-> IF k \in DOMAIN cn[c].wbal THEN cn[c].wbal[k] ELSE bal[k]]

\* a SELECT that answers a missing row with a row of amount 0
getBalances_ZeroForMissing(c, address, token) ==
    IF <<address, token>> \in DOMAIN balances
    THEN <<View(conn, balances, c)[<<address, token>>]>>
    ELSE <<0>>

\* SELECT ... FROM balances WHERE address = $1 AND token = $2 on session c:
\* the list of amounts of the matching rows (at most one)
getBalancesForAddressAndToken(c, address, token) ==
    IF <<address, token>> \in DOMAIN balances
    THEN <<View(conn, balances, c)[<<address, token>>]>>
    ELSE <<>>

\* A statement waits while another session's open transaction holds the row
\* it writes (UPDATE) or an uncommitted row with the same primary key (INSERT)
BlockedBy(c, q, d) ==
    /\ d # c
    /\ conn[d].live
    /\ \/ q.op = "update" /\ q.key \in DOMAIN conn[d].wbal
       \/ q.op = "insert" /\ \E t \in q.rec, u \in conn[d].wtx : SamePK(t, u)
       \/ q.op = "mark" /\ \E u \in conn[d].wrev : u.tx_id \in q.ids

Blocked(c, q) == \E d \in Clients : BlockedBy(c, q, d)

\* A statement fails: INSERT of a duplicate primary key
StmtError(c, q) ==
    /\ q.op = "insert"
    /\ \E t \in q.rec, u \in transactions \cup conn[c].wtx : SamePK(t, u)

\* The session after statement q ran on it
ConnAfter(c, q) ==
    CASE q.op = "begin" -> [conn[c] EXCEPT !.inTx = TRUE]
      [] q.op = "commit" ->
            [conn[c] EXCEPT !.inTx = FALSE, !.wbal = EmptyFn, !.wtx = {}, !.wrev = {}]
      [] q.op = "update" /\ conn[c].inTx /\ q.key \in DOMAIN balances ->
            [conn[c] EXCEPT !.wbal = Upd(@, q.key, q.amount)]
      [] q.op = "insert" /\ conn[c].inTx -> [conn[c] EXCEPT !.wtx = @ \cup q.rec]
      [] q.op = "mark" /\ conn[c].inTx ->
            [conn[c] EXCEPT
                !.wrev = @ \cup {t \in transactions : t.tx_id \in q.ids},
                !.wtx = {t \in @ : t.tx_id \notin q.ids}
                        \cup Marked({t \in @ : t.tx_id \in q.ids})]
      [] OTHER -> conn[c]

\* The committed balances after statement q ran on session c
BalancesAfter(c, q) ==
    CASE q.op = "commit" -> View(conn, balances, c)
      [] q.op = "update" /\ ~conn[c].inTx /\ q.key \in DOMAIN balances ->
            [balances EXCEPT ![q.key] = q.amount]
      [] OTHER -> balances

\* The committed transactions after statement q ran on session c
TransactionsAfter(c, q) ==
    CASE q.op = "commit" -> TxView(conn, transactions, c)
      [] q.op = "insert" /\ ~conn[c].inTx -> transactions \cup q.rec
      [] q.op = "mark" /\ ~conn[c].inTx ->
            {t \in transactions : t.tx_id \notin q.ids}
                \cup Marked({t \in transactions : t.tx_id \in q.ids})
      [] OTHER -> transactions

\* ---- pg-pool -----------------------------------------------------------
\* The pool state is the record [conn, idle, pq, cl].
IsFull(P) == Cardinality({c \in Clients : P.conn[c].live}) >= PoolMax

\* newClient: a new connection is opened for the waiting request
NewClientFor(P, r) ==
    LET c == CHOOSE x \in Clients :
                 /\ ~P.conn[x].live
                 /\ \A y \in Clients : ~P.conn[y].live => x <= y
    IN [P EXCEPT !.conn[c] = FreshConn, !.cl[r] = c]

\* _pulseQueue: the first waiting request gets the connection released last,
\* or a new connection if the pool is not full
Pulse(P) ==
    IF P.pq = <<>> THEN P
    ELSE IF P.idle = <<>> /\ IsFull(P) THEN P
    ELSE IF P.idle # <<>>
         THEN [P EXCEPT !.cl[Head(P.pq)] = Last(P.idle), !.idle = Front(@), !.pq = Tail(@)]
    ELSE NewClientFor([P EXCEPT !.pq = Tail(@)], Head(P.pq))

\* connect, as pool.query calls it for request r
Connect(P, r) ==
    IF IsFull(P) \/ P.idle # <<>>
    THEN LET P1 == [P EXCEPT !.pq = Append(@, r)]
         IN IF P.idle # <<>> THEN Pulse(P1) ELSE P1
    ELSE NewClientFor(P, r)

\* client.release(err) at the end of pool.query: a connection whose query
\* failed is removed (the server rolls its open transaction back), any other
\* one becomes idle with its session state as it is; then _pulseQueue
Release(P, c, err) ==
    IF err THEN Pulse([P EXCEPT !.conn[c] = DeadConn])
    ELSE Pulse([P EXCEPT !.idle = Append(@, c)])

\* ------------------------------------------------------------------------
\* Lock coordinator (synch/ThreadSafeMap.ts).  The body of runExclusive has
\* no await in it, so each operation is one atomic step on the map.
\* ------------------------------------------------------------------------
\* a compareAndSetValue that answers true without writing
compareAndSetValue_NoWrite(map, key, value, compare) ==
    IF key \notin DOMAIN map THEN [ok |-> TRUE, map |-> map]
    ELSE [ok |-> compare[map[key]], map |-> map]

\* a compareAndSetValue that writes whatever the predicate says
compareAndSetValue_WriteAlways(map, key, value, compare) ==
    IF key \notin DOMAIN map THEN [ok |-> TRUE, map |-> Upd(map, key, value)]
    ELSE [ok |-> compare[map[key]], map |-> Upd(map, key, value)]

\* compareAndSetValue: [ok, map]
compareAndSetValue(map, key, value, compare) ==
    IF key \notin DOMAIN map \/ compare[map[key]]
    THEN [ok |-> TRUE, map |-> Upd(map, key, value)]
    ELSE [ok |-> FALSE, map |-> map]

\* a delete that empties the map
delete_All(map, key) == [ok |-> key \in DOMAIN map, map |-> EmptyFn]

\* a delete that answers but leaves the key in the map
delete_Keep(map, key) == [ok |-> key \in DOMAIN map, map |-> map]

\* delete: [ok, map]
delete(map, key) == [ok |-> key \in DOMAIN map, map |-> Without(map, key)]

\* a predicate that lets a held lock be taken again
notLocked_Inverted == [lock \in BOOLEAN |-> lock]

\* the predicate the handler passes: (lock) => !lock
notLocked == [lock \in BOOLEAN |-> ~lock]

\* a lock attempt that sets the entry without comparing
tryLock_Unchecked(map, key) == [ok |-> TRUE, map |-> Upd(map, key, TRUE)]

\* a lock attempt that, refused, releases the lock of its holder
tryLock_Release(map, key) ==
    IF key \in DOMAIN map /\ map[key]
    THEN [ok |-> FALSE, map |-> Without(map, key)]
    ELSE [ok |-> TRUE, map |-> Upd(map, key, TRUE)]

\* the handler's lock attempt: LOCK_MAP.compareAndSetValue(lockKey, true, lock => !lock)
tryLock(map, key) == compareAndSetValue(map, key, TRUE, notLocked)

\* ------------------------------------------------------------------------
\* POST /transfer (routes.ts)
\* ------------------------------------------------------------------------
NoLoc == [tx_ts |-> -1, refund |-> NoRefund, senderBalance_amount |-> 0,
          receiverBalance_amount |-> 0]
NoResp == [status |-> 0, message |-> "", sender |-> 0, receiver |-> 0]
Reply(status, message) == [status |-> status, message |-> message, sender |-> 0, receiver |-> 0]

InvalidShape == Reply(400, "Invalid transfer request.")
BadSignature == Reply(403, "Invalid signature.")
Conflict == Reply(409, "Transaction already in progress.")
SenderBalanceMissing == Reply(404, "No sender balance found.")
ReceiverBalanceMissing == Reply(404, "No receiver balance found.")
InsufficientFunds == Reply(403, "Insufficient funds.")
InternalError == Reply(500, "Internal Server Error.")
Accepted(s, r) == [status |-> 200, message |-> "", sender |-> s, receiver |-> r]

\* a check that lets the sender spend the whole balance
sufficient_Inclusive(transfer_token_amount, senderBalance_amount) ==
    transfer_token_amount <= senderBalance_amount

\* a check that compares the balance with nothing
sufficient_Unchecked(transfer_token_amount, senderBalance_amount) ==
    transfer_token_amount > 0

\* the sufficiency check: transfer_token_amount < senderBalance_amount
sufficient(transfer_token_amount, senderBalance_amount) ==
    transfer_token_amount < senderBalance_amount

\* fields of the transfer of request r
Sender(r) == body[r].sender.s
Receiver(r) == body[r].targetChain.receiver.s
TokenAddr(r) == body[r].token.address.s
Amount(r) == body[r].token.amount.n
lockKey(r) == lockKeyOf(body[r])

\* a record inserted as already reverted
TxRecord_Reverted(r) ==
    Transaction(loc[r].tx_ts, txHash(body[r]), Sender(r), Receiver(r), TokenAddr(r), Amount(r), TRUE)

\* the record db.transfer inserts for request r
TxRecord(r) ==
    Transaction(loc[r].tx_ts, txHash(body[r]), Sender(r), Receiver(r), TokenAddr(r), Amount(r), FALSE)

\* the transaction revertTransactions is reverting
\* the locals of invocation i of revertTransactions: rev holds those of the
\* first, and in `second` those of one more that may run beside it
Inv(i) == IF i = Rev THEN rev ELSE rev.second
SetInv(i, locals) == IF i = Rev THEN locals ELSE [rev EXCEPT !.second = locals]

RevTx(i) == Head(Inv(i).todo)

\* the statement DB.setBalance or a GET handler is waiting for
OpQuery ==
    CASE rev.op.pc = "upd" -> QUpdate(rev.op.address, rev.op.token, rev.op.amount)
      [] rev.op.method = "/transactions" -> QList
      [] OTHER -> QSelect(rev.op.address, rev.op.token)

\* the statement revertTransactions is waiting for
RevQuery(i) ==
    CASE Inv(i).pc = "list" -> QList
      [] Inv(i).pc = "begin" -> QBegin
      [] Inv(i).pc = "selS" -> QSelect(RevTx(i).sender, RevTx(i).token)
      [] Inv(i).pc = "selR" -> QSelect(RevTx(i).receiver, RevTx(i).token)
      [] Inv(i).pc = "updS" -> QUpdate(RevTx(i).sender, RevTx(i).token, Inv(i).senderAmount)
      [] Inv(i).pc = "updR" -> QUpdate(RevTx(i).receiver, RevTx(i).token, Inv(i).receiverAmount)
      [] Inv(i).pc = "mark" -> QMark(RevTx(i).tx_id)
      [] Inv(i).pc = "commit" -> QCommit
      [] OTHER -> QBegin

\* the statement request r is waiting for, by the place of its handler
CurQuery(r) ==
    IF r = Op THEN OpQuery ELSE
    IF r \in Invocations THEN RevQuery(r) ELSE
    CASE pc[r] \in {"selS", "selS2"} -> QSelect(Sender(r), TokenAddr(r))
      [] pc[r] \in {"selR", "selR2"} -> QSelect(Receiver(r), TokenAddr(r))
      [] pc[r] = "begin" -> QBegin
      [] pc[r] = "insert" -> QInsert(TxRecord(r))
      [] pc[r] = "updS" ->
            QUpdate(Sender(r), TokenAddr(r), loc[r].senderBalance_amount - Amount(r))
      [] pc[r] = "updR" ->
            QUpdate(Receiver(r), TokenAddr(r), loc[r].receiverBalance_amount + Amount(r))
      [] pc[r] = "commit" -> QCommit
      [] OTHER -> QBegin

DbPcs == {"selS", "selR", "begin", "insert", "updS", "updR", "commit", "selS2", "selR2"}

\* the query of request r has a connection and is not waiting for a row lock
Ready(r) == cl[r] # 0 /\ ~Blocked(cl[r], CurQuery(r))

\* pool.query resolves or rejects for request r: the statement takes effect,
\* the connection is released, and (again) the handler's next pool.query asks
\* for a connection in the same run
PoolAfter(r, err, again) ==
    LET c == cl[r]
        P0 == [conn |-> IF err THEN conn ELSE [conn EXCEPT ![c] = ConnAfter(c, CurQuery(r))],
               idle |-> idle, pq |-> pendingQueue, cl |-> [cl EXCEPT ![r] = 0]]
        P1 == Release(P0, c, err)
    IN IF again THEN Connect(P1, r) ELSE P1

QueryDone(r, again) ==
    /\ Ready(r)
    /\ ~StmtError(cl[r], CurQuery(r))
    /\ LET P == PoolAfter(r, FALSE, again)
       IN /\ conn' = P.conn
          /\ idle' = P.idle
          /\ pendingQueue' = P.pq
          /\ cl' = P.cl
    /\ balances' = BalancesAfter(cl[r], CurQuery(r))
    /\ transactions' = TransactionsAfter(cl[r], CurQuery(r))

\* pool.query rejects: the handler's catch answers 500; nothing after the
\* failed await runs, in particular not LOCK_MAP.delete
QueryRejected(r) ==
    /\ cl[r] # 0
    /\ LET P == PoolAfter(r, TRUE, FALSE)
       IN /\ conn' = P.conn
          /\ idle' = P.idle
          /\ pendingQueue' = P.pq
          /\ cl' = P.cl
    /\ pc' = [pc EXCEPT ![r] = "done"]
    /\ resp' = [resp EXCEPT ![r] = InternalError]
    /\ UNCHANGED <<body, loc, LOCK_MAP, balances, transactions, now, rev, overlapped>>

\* a transfer handler or a revertTransactions call is running
Busy ==
    \/ \E q \in Reqs : pc[q] \notin {"idle", "done"}
    \/ rev.pc # "idle"
    \/ rev.second.pc # "idle"
    \/ rev.op.pc # "idle"

\* revertTransactions is not running
\* (todo: the rows still to revert; result: the list the call returns)
\* (failed: the call ended by throwing)
NoInv ==
    [pc |-> "idle", todo |-> <<>>, result |-> <<>>, senderAmount |-> 0,
     receiverAmount |-> 0, calls |-> 0, failed |-> FALSE]
\* neither DB.setBalance nor a GET handler is running
\* (rows: the balance rows answered; list: the transactions answered;
\*  status: the status of the GET response, 0 for none)
NoOp ==
    [pc |-> "idle", method |-> "", address |-> "", token |-> "", amount |-> 0,
     rows |-> {}, list |-> <<>>, status |-> 0, failed |-> FALSE, calls |-> 0]
NoRev ==
    [pc |-> "idle", todo |-> <<>>, result |-> <<>>, senderAmount |-> 0,
     receiverAmount |-> 0, calls |-> 0, failed |-> FALSE, second |-> NoInv,
     op |-> NoOp]

\* ------------------------------------------------------------------------
\* ThreadSafeMap and SignedTransfer on their own (the unit tests' use)
\* ------------------------------------------------------------------------
MapKeys == {"key1", "key2"}

\* Map.get: the value of the key, or undefined
undefined == [defined |-> FALSE, value |-> FALSE]
get(map, key) == IF key \in DOMAIN map THEN [defined |-> TRUE, value |-> map[key]] ELSE undefined

\* Map.set
set(map, key, value) == Upd(map, key, value)

\* Map.has, Map.size
has(map, key) == key \in DOMAIN map
size(map) == Cardinality(DOMAIN map)

\* the calls made on the map: compareAndSetValue(key, value, compare) with
\* any predicate on booleans, delete(key), set(key, value)
MapCalls ==
    {[op |-> "compareAndSetValue", key |-> k, value |-> v, compare |-> f] :
        k \in MapKeys, v \in BOOLEAN, f \in [BOOLEAN -> BOOLEAN]}
    \cup {[op |-> "delete", key |-> k, value |-> FALSE, compare |-> notLocked] : k \in MapKeys}
    \cup {[op |-> "set", key |-> k, value |-> v, compare |-> notLocked] :
              k \in MapKeys, v \in BOOLEAN}

NoCall == [pc |-> "idle", call |-> [op |-> "", key |-> "", value |-> FALSE, compare |-> notLocked],
           ahead |-> 0, oldValue |-> undefined, result |-> FALSE, ranAt |-> 0,
           got |-> undefined, count |-> 0]

NoSigned == [pc |-> "new", key |-> "", returned |-> NoBody, transfer |-> NoBody,
             isVerified |-> "none", isVerifiedAfter |-> "none",
             refundKey |-> "", refundReturned |-> NoRefund, refund |-> NoRefund,
             refundAddress |-> "", isRefundVerified |-> "none"]

Init ==
    /\ pc = [r \in Reqs |-> "idle"]
    /\ body = [r \in Reqs |-> NoBody]
    /\ loc = [r \in Reqs |-> NoLoc]
    /\ resp = [r \in Reqs |-> NoResp]
    /\ LOCK_MAP = EmptyFn
    /\ balances = [k \in Holders \X Tokens |-> InitBalance]
    /\ transactions = {}
    /\ conn = [c \in Clients |-> DeadConn]
    /\ idle = <<>>
    /\ pendingQueue = <<>>
    /\ cl = [u \in Users |-> 0]
    /\ now = 0
    /\ failures = 0
    /\ rev = NoRev
    /\ overlapped = FALSE
    /\ threadSafeMap = EmptyFn
    /\ mutex = <<>>
    /\ calls = [c \in Callers |-> NoCall]
    /\ signed = NoSigned

storeVars == <<balances, transactions, conn, idle, pendingQueue, cl>>

\* The request arrives; isValidTransfer(body); SignedTransfer.verify is called
Submit(r, b) ==
    /\ pc[r] = "idle"
    /\ IF r = 1 THEN TRUE ELSE pc[r - 1] # "idle"
    /\ body' = [body EXCEPT ![r] = b]
    /\ CASE isValidTransfer(b) = "true" ->
              /\ pc' = [pc EXCEPT ![r] = "verify"]
              /\ resp' = resp
         [] isValidTransfer(b) = "false" ->
              /\ pc' = [pc EXCEPT ![r] = "done"]
              /\ resp' = [resp EXCEPT ![r] = InvalidShape]
         [] OTHER ->
              /\ pc' = [pc EXCEPT ![r] = "done"]
              /\ resp' = [resp EXCEPT ![r] = InternalError]
    /\ overlapped' = (overlapped \/ Busy)
    /\ UNCHANGED <<loc, LOCK_MAP, now, failures, rev>>
    /\ UNCHANGED storeVars
    /\ UNCHANGED unitVars

\* SignedTransfer.verify returns; signForRefund reads the clock and signs
VerifyDone(r) ==
    /\ pc[r] = "verify"
    /\ CASE SignedTransfer_verify(body[r]) = "true" ->
              /\ pc' = [pc EXCEPT ![r] = "sign"]
              /\ loc' = [loc EXCEPT ![r].tx_ts = now]
              /\ resp' = resp
         [] SignedTransfer_verify(body[r]) = "false" ->
              /\ pc' = [pc EXCEPT ![r] = "done"]
              /\ resp' = [resp EXCEPT ![r] = BadSignature]
              /\ loc' = loc
         [] OTHER ->
              /\ pc' = [pc EXCEPT ![r] = "done"]
              /\ resp' = [resp EXCEPT ![r] = InternalError]
              /\ loc' = loc
    /\ UNCHANGED <<body, LOCK_MAP, now, failures, rev, overlapped>>
    /\ UNCHANGED storeVars
    /\ UNCHANGED unitVars

\* signForRefund returns, the refund is attached to the transfer;
\* LOCK_MAP.compareAndSetValue is called
SignDone(r) ==
    /\ pc[r] = "sign"
    /\ pc' = [pc EXCEPT ![r] = "cas"]
    /\ loc' = [loc EXCEPT ![r].refund = signForRefund(body[r], solver.private, loc[r].tx_ts)]
    /\ UNCHANGED <<body, resp, LOCK_MAP, now, failures, rev, overlapped>>
    /\ UNCHANGED storeVars
    /\ UNCHANGED unitVars

\* a lock attempt that waits until the key is free
CasDone_Queue(r) ==
    /\ tryLock(LOCK_MAP, lockKey(r)).ok
    /\ pc[r] = "cas"
    /\ LET cas == tryLock(LOCK_MAP, lockKey(r))
       IN /\ LOCK_MAP' = cas.map
          /\ IF cas.ok
             THEN /\ pc' = [pc EXCEPT ![r] = "selS"]
                  /\ resp' = resp
                  /\ LET P == Connect([conn |-> conn, idle |-> idle, pq |-> pendingQueue, cl |-> cl], r)
                     IN /\ conn' = P.conn
                        /\ idle' = P.idle
                        /\ pendingQueue' = P.pq
                        /\ cl' = P.cl
             ELSE /\ pc' = [pc EXCEPT ![r] = "done"]
                  /\ resp' = [resp EXCEPT ![r] = Conflict]
                  /\ UNCHANGED <<conn, idle, pendingQueue, cl>>
    /\ UNCHANGED <<body, loc, balances, transactions, now, failures, rev, overlapped>>
    /\ UNCHANGED unitVars

\* compareAndSetValue(lockKey, true, lock => !lock) runs and returns; if
\* isFree the sender's balance is asked from the store
CasDone(r) ==
    /\ pc[r] = "cas"
    /\ LET cas == tryLock(LOCK_MAP, lockKey(r))
       IN /\ LOCK_MAP' = cas.map
          /\ IF cas.ok
             THEN /\ pc' = [pc EXCEPT ![r] = "selS"]
                  /\ resp' = resp
                  /\ LET P == Connect([conn |-> conn, idle |-> idle, pq |-> pendingQueue, cl |-> cl], r)
                     IN /\ conn' = P.conn
                        /\ idle' = P.idle
                        /\ pendingQueue' = P.pq
                        /\ cl' = P.cl
             ELSE /\ pc' = [pc EXCEPT ![r] = "done"]
                  /\ resp' = [resp EXCEPT ![r] = Conflict]
                  /\ UNCHANGED <<conn, idle, pendingQueue, cl>>
    /\ UNCHANGED <<body, loc, balances, transactions, now, failures, rev, overlapped>>
    /\ UNCHANGED unitVars

\* getBalancesForAddressAndToken(sender) returns: 404 and the lock release
\* is called, or the receiver's balance is asked
SelectSender(r) ==
    /\ pc[r] = "selS"
    /\ cl[r] # 0
    /\ LET senderBalances == getBalancesForAddressAndToken(cl[r], Sender(r), TokenAddr(r))
       IN IF Len(senderBalances) > 0
          THEN /\ QueryDone(r, TRUE)
               /\ loc' = [loc EXCEPT ![r].senderBalance_amount = senderBalances[1]]
               /\ pc' = [pc EXCEPT ![r] = "selR"]
               /\ resp' = resp
          ELSE /\ QueryDone(r, FALSE)
               /\ loc' = loc
               /\ pc' = [pc EXCEPT ![r] = "unlock"]
               /\ resp' = [resp EXCEPT ![r] = SenderBalanceMissing]
    /\ UNCHANGED <<body, LOCK_MAP, now, failures, rev, overlapped>>
    /\ UNCHANGED unitVars

\* getBalancesForAddressAndToken(receiver) returns: 404, or the sufficiency
\* check: 403, or db.transfer is called and sends BEGIN
SelectReceiver(r) ==
    /\ pc[r] = "selR"
    /\ cl[r] # 0
    /\ LET receiverBalances == getBalancesForAddressAndToken(cl[r], Receiver(r), TokenAddr(r))
       IN IF Len(receiverBalances) > 0
          THEN IF sufficient(Amount(r), loc[r].senderBalance_amount)
               THEN /\ QueryDone(r, TRUE)
                    /\ loc' = [loc EXCEPT ![r].receiverBalance_amount = receiverBalances[1]]
                    /\ pc' = [pc EXCEPT ![r] = "begin"]
                    /\ resp' = resp
               ELSE /\ QueryDone(r, FALSE)
                    /\ loc' = [loc EXCEPT ![r].receiverBalance_amount = receiverBalances[1]]
                    /\ pc' = [pc EXCEPT ![r] = "unlock"]
                    /\ resp' = [resp EXCEPT ![r] = InsufficientFunds]
          ELSE /\ QueryDone(r, FALSE)
               /\ loc' = loc
               /\ pc' = [pc EXCEPT ![r] = "unlock"]
               /\ resp' = [resp EXCEPT ![r] = ReceiverBalanceMissing]
    /\ UNCHANGED <<body, LOCK_MAP, now, failures, rev, overlapped>>
    /\ UNCHANGED unitVars

\* db.transfer: BEGIN returns, INSERT INTO transactions is sent
Begin(r) ==
    /\ pc[r] = "begin"
    /\ QueryDone(r, TRUE)
    /\ pc' = [pc EXCEPT ![r] = "insert"]
    /\ UNCHANGED <<body, loc, resp, LOCK_MAP, now, failures, rev, overlapped>>
    /\ UNCHANGED unitVars

\* db.transfer: INSERT returns, UPDATE balances of the sender is sent
Insert(r) ==
    /\ pc[r] = "insert"
    /\ QueryDone(r, TRUE)
    /\ pc' = [pc EXCEPT ![r] = "updS"]
    /\ UNCHANGED <<body, loc, resp, LOCK_MAP, now, failures, rev, overlapped>>
    /\ UNCHANGED unitVars

\* db.transfer: UPDATE returns, UPDATE balances of the receiver is sent
UpdateSender(r) ==
    /\ pc[r] = "updS"
    /\ QueryDone(r, TRUE)
    /\ pc' = [pc EXCEPT ![r] = "updR"]
    /\ UNCHANGED <<body, loc, resp, LOCK_MAP, now, failures, rev, overlapped>>
    /\ UNCHANGED unitVars

\* db.transfer: UPDATE returns, COMMIT is sent
UpdateReceiver(r) ==
    /\ pc[r] = "updR"
    /\ QueryDone(r, TRUE)
    /\ pc' = [pc EXCEPT ![r] = "commit"]
    /\ UNCHANGED <<body, loc, resp, LOCK_MAP, now, failures, rev, overlapped>>
    /\ UNCHANGED unitVars

\* db.transfer: COMMIT returns, the sender's balance is asked
Commit(r) ==
    /\ pc[r] = "commit"
    /\ QueryDone(r, TRUE)
    /\ pc' = [pc EXCEPT ![r] = "selS2"]
    /\ UNCHANGED <<body, loc, resp, LOCK_MAP, now, failures, rev, overlapped>>
    /\ UNCHANGED unitVars

\* db.transfer reads the sender's balance back
ReadSender(r) ==
    /\ pc[r] = "selS2"
    /\ cl[r] # 0
    /\ LET senderBalances == getBalancesForAddressAndToken(cl[r], Sender(r), TokenAddr(r))
       IN resp' = [resp EXCEPT ![r].sender = senderBalances[1]]
    /\ QueryDone(r, TRUE)
    /\ pc' = [pc EXCEPT ![r] = "selR2"]
    /\ UNCHANGED <<body, loc, LOCK_MAP, now, failures, rev, overlapped>>
    /\ UNCHANGED unitVars

\* db.transfer reads the receiver's balance back and returns; 200 is sent
\* and the lock release is called
ReadReceiver(r) ==
    /\ pc[r] = "selR2"
    /\ cl[r] # 0
    /\ LET receiverBalances == getBalancesForAddressAndToken(cl[r], Receiver(r), TokenAddr(r))
       IN resp' = [resp EXCEPT ![r] = Accepted(resp[r].sender, receiverBalances[1])]
    /\ QueryDone(r, FALSE)
    /\ pc' = [pc EXCEPT ![r] = "unlock"]
    /\ UNCHANGED <<body, loc, LOCK_MAP, now, failures, rev, overlapped>>
    /\ UNCHANGED unitVars

\* LOCK_MAP.delete(lockKey) runs and returns; the handler ends
Unlock(r) ==
    /\ pc[r] = "unlock"
    /\ LOCK_MAP' = delete(LOCK_MAP, lockKey(r)).map
    /\ pc' = [pc EXCEPT ![r] = "done"]
    /\ UNCHANGED <<body, loc, resp, now, failures, rev, overlapped>>
    /\ UNCHANGED storeVars
    /\ UNCHANGED unitVars

\* the INSERT of db.transfer hits an existing (tx_ts, tx_id)
InsertDuplicate(r) ==
    /\ pc[r] = "insert"
    /\ Ready(r)
    /\ StmtError(cl[r], CurQuery(r))
    /\ QueryRejected(r)
    /\ UNCHANGED failures
    /\ UNCHANGED unitVars

\* The statement of u waits for a row held by the session on which v has a
\* statement waiting; a cycle of such waits is a deadlock, which the server
\* ends by rejecting the statement of one of the sessions in the cycle.
WaitsFor(u, v) ==
    /\ u # v
    /\ cl[u] # 0
    /\ cl[v] # 0
    /\ BlockedBy(cl[u], CurQuery(u), cl[v])

Deadlocked(u) ==
    \E v \in Users :
        /\ WaitsFor(u, v)
        /\ \/ WaitsFor(v, u)
           \/ \E w \in Users :
                 /\ WaitsFor(v, w)
                 /\ \/ WaitsFor(w, u)
                    \/ \E x \in Users : WaitsFor(w, x) /\ WaitsFor(x, u)

\* any query may fail for a reason outside the program (connection lost,
\* server error), and the statement of a deadlocked session is rejected
StoreFailure(r) ==
    /\ pc[r] \in DbPcs
    /\ failures < MaxFailures \/ Deadlocked(r)
    /\ QueryRejected(r)
    /\ failures' = failures + 1
    /\ UNCHANGED unitVars

\* the clock advances
Tick ==
    /\ now < MaxClock
    /\ now' = now + 1
    /\ UNCHANGED <<pc, body, loc, resp, LOCK_MAP, failures, rev, overlapped>>
    /\ UNCHANGED storeVars
    /\ UNCHANGED unitVars

\* ------------------------------------------------------------------------
\* DB.revertTransactions (db.ts)
\* ------------------------------------------------------------------------
\* ORDER BY tx_ts DESC: the orders of the rows the store may answer (rows of
\* equal tx_ts come in any order)
RECURSIVE OrderByTsDesc(_)
OrderByTsDesc(rows) ==
    IF rows = {} THEN {<<>>}
    ELSE UNION {{<<t>> \o q : q \in OrderByTsDesc(rows \ {t})} :
                   t \in {x \in rows : \A y \in rows : x.tx_ts >= y.tx_ts}}

\* a WHERE clause that takes every row
NotReverted_All(rows) == rows

\* WHERE reverted = FALSE
NotReverted(rows) == {t \in rows : ~t.reverted}

\* senderAmount = Number(senderBalance.amount) + Number(transaction.amount)
senderAmount(balance, amount) == balance + amount

\* a reversal that pays the receiver once more
receiverAmount_Added(balance, amount) == balance + amount

\* receiverAmount = Number(receiverBalance.amount) - Number(transaction.amount)
receiverAmount(balance, amount) == balance - amount

revFrame == <<pc, body, loc, resp, LOCK_MAP, now, failures, overlapped>>

\* revertTransactions is called: the SELECT of the not reverted rows is sent
RevertStart(i) ==
    /\ Inv(i).pc = "idle"
    /\ Inv(i).calls < MaxReverts
    /\ rev' = SetInv(i, [Inv(i) EXCEPT !.pc = "list", !.calls = @ + 1, !.result = <<>>,
                                        !.failed = FALSE])
    /\ overlapped' = (overlapped \/ Busy)
    /\ LET P == Connect([conn |-> conn, idle |-> idle, pq |-> pendingQueue, cl |-> cl], i)
       IN /\ conn' = P.conn
          /\ idle' = P.idle
          /\ pendingQueue' = P.pq
          /\ cl' = P.cl
    /\ UNCHANGED <<pc, body, loc, resp, LOCK_MAP, now, failures, balances, transactions>>
    /\ UNCHANGED unitVars

\* the SELECT returns: with no row the call returns, else BEGIN is sent for
\* the first transaction of the list
RevertList(i) ==
    /\ Inv(i).pc = "list"
    /\ cl[i] # 0
    /\ \E rows \in OrderByTsDesc(NotReverted(TxView(conn, transactions, cl[i]))) :
          IF rows = <<>>
          THEN /\ QueryDone(i, FALSE)
               /\ rev' = SetInv(i, [Inv(i) EXCEPT !.pc = "idle"])
          ELSE /\ QueryDone(i, TRUE)
               /\ rev' = SetInv(i, [Inv(i) EXCEPT !.pc = "begin", !.todo = rows, !.result = rows])
    /\ UNCHANGED revFrame
    /\ UNCHANGED unitVars

\* BEGIN returns, the sender's balance is asked
RevertBegin(i) ==
    /\ Inv(i).pc = "begin"
    /\ QueryDone(i, TRUE)
    /\ rev' = SetInv(i, [Inv(i) EXCEPT !.pc = "selS"])
    /\ UNCHANGED revFrame
    /\ UNCHANGED unitVars

\* the sender's balance returns: senderAmount = balance + amount; the
\* receiver's balance is asked.  With no row, `senderBalance.amount` throws.
RevertSelectSender(i) ==
    /\ Inv(i).pc = "selS"
    /\ cl[i] # 0
    /\ LET senderBalances == getBalancesForAddressAndToken(cl[i], RevTx(i).sender, RevTx(i).token)
       IN IF Len(senderBalances) > 0
          THEN /\ QueryDone(i, TRUE)
               /\ rev' = SetInv(i, [Inv(i) EXCEPT !.pc = "selR",
                                     !.senderAmount = senderAmount(senderBalances[1], RevTx(i).amount)])
          ELSE /\ QueryDone(i, FALSE)
               /\ rev' = SetInv(i, [Inv(i) EXCEPT !.pc = "idle", !.todo = <<>>, !.failed = TRUE])
    /\ UNCHANGED revFrame
    /\ UNCHANGED unitVars

\* the receiver's balance returns: receiverAmount = balance - amount; the
\* UPDATE of the sender's balance is sent
RevertSelectReceiver(i) ==
    /\ Inv(i).pc = "selR"
    /\ cl[i] # 0
    /\ LET receiverBalances == getBalancesForAddressAndToken(cl[i], RevTx(i).receiver, RevTx(i).token)
       IN IF Len(receiverBalances) > 0
          THEN /\ QueryDone(i, TRUE)
               /\ rev' = SetInv(i, [Inv(i) EXCEPT !.pc = "updS",
                                     !.receiverAmount =
                                         receiverAmount(receiverBalances[1], RevTx(i).amount)])
          ELSE /\ QueryDone(i, FALSE)
               /\ rev' = SetInv(i, [Inv(i) EXCEPT !.pc = "idle", !.todo = <<>>, !.failed = TRUE])
    /\ UNCHANGED revFrame
    /\ UNCHANGED unitVars

\* UPDATE of the sender returns, UPDATE of the receiver is sent
RevertUpdateSender(i) ==
    /\ Inv(i).pc = "updS"
    /\ QueryDone(i, TRUE)
    /\ rev' = SetInv(i, [Inv(i) EXCEPT !.pc = "updR"])
    /\ UNCHANGED revFrame
    /\ UNCHANGED unitVars

\* UPDATE of the receiver returns, UPDATE transactions SET reverted is sent
RevertUpdateReceiver(i) ==
    /\ Inv(i).pc = "updR"
    /\ QueryDone(i, TRUE)
    /\ rev' = SetInv(i, [Inv(i) EXCEPT !.pc = "mark"])
    /\ UNCHANGED revFrame
    /\ UNCHANGED unitVars

\* a flagging step that also releases the lock of the transaction's triple
RevertMark_Unlock(i) ==
    /\ Inv(i).pc = "mark"
    /\ QueryDone(i, TRUE)
    /\ rev' = SetInv(i, [Inv(i) EXCEPT !.pc = "commit"])
    /\ LOCK_MAP' = Without(LOCK_MAP, RevTx(i).sender \o ":" \o RevTx(i).receiver \o ":" \o RevTx(i).token)
    /\ UNCHANGED <<pc, body, loc, resp, now, failures, overlapped>>
    /\ UNCHANGED unitVars

\* UPDATE transactions returns, COMMIT is sent
RevertMark(i) ==
    /\ Inv(i).pc = "mark"
    /\ QueryDone(i, TRUE)
    /\ rev' = SetInv(i, [Inv(i) EXCEPT !.pc = "commit"])
    /\ UNCHANGED revFrame
    /\ UNCHANGED unitVars

\* COMMIT returns: BEGIN is sent for the next transaction of the list, or
\* the call returns
RevertCommit(i) ==
    /\ Inv(i).pc = "commit"
    /\ IF Len(Inv(i).todo) > 1
       THEN /\ QueryDone(i, TRUE)
            /\ rev' = SetInv(i, [Inv(i) EXCEPT !.pc = "begin", !.todo = Tail(@),
                                  !.senderAmount = 0, !.receiverAmount = 0])
       ELSE /\ QueryDone(i, FALSE)
            /\ rev' = SetInv(i, [Inv(i) EXCEPT !.pc = "idle", !.todo = <<>>,
                                  !.senderAmount = 0, !.receiverAmount = 0])
    /\ UNCHANGED revFrame
    /\ UNCHANGED unitVars

\* a query of revertTransactions is rejected for a reason outside the
\* program: pool.query releases the connection as broken, the server rolls
\* back what the session left open, and the call throws
RevertFailure(i) ==
    /\ Inv(i).pc # "idle"
    /\ cl[i] # 0
    /\ failures < MaxFailures \/ Deadlocked(i)
    /\ LET P == PoolAfter(i, TRUE, FALSE)
       IN /\ conn' = P.conn
          /\ idle' = P.idle
          /\ pendingQueue' = P.pq
          /\ cl' = P.cl
    /\ rev' = SetInv(i, [Inv(i) EXCEPT !.pc = "idle", !.todo = <<>>, !.failed = TRUE])
    /\ failures' = failures + 1
    /\ UNCHANGED <<pc, body, loc, resp, LOCK_MAP, now, overlapped, balances, transactions>>
    /\ UNCHANGED unitVars

\* ------------------------------------------------------------------------
\* The requests submitted
\* ------------------------------------------------------------------------
\* transfers signed by their sender
Pairs ==
    {<<"a", "b">>, <<"a", "c">>, <<"b", "a">>, <<"a", "a">>, <<"a", "n">>, <<"n", "b">>}
SignedBodies ==
    {SignedTransfer_sign(Unsigned(p[1], p[2], tok, amt), keyOf(p[1])) :
        p \in Pairs, tok \in Tokens, amt \in 1..MaxAmount}

\* transfers whose signature does not verify: signed with another key,
\* signed over another amount, not signed
UnverifiedBodies ==
    {SignedTransfer_sign(Unsigned("a", "b", "T", 1), "k_b"),
     [Unsigned("a", "b", "T", 1) EXCEPT
         !.signature = SignedTransfer_sign(Unsigned("a", "b", "T", 2), "k_a").signature],
     Unsigned("a", "b", "T", 1)}

\* bodies that are no Transfer
Good == SignedTransfer_sign(Unsigned("a", "b", "T", 1), "k_a")
MalformedBodies ==
    {[Good EXCEPT !.signature = NoSig],
     [Good EXCEPT !.sender = JsUndef],
     [Good EXCEPT !.sender = JsUndef, !.token = NoToken],
     [Good EXCEPT !.token = NoToken],
     [Good EXCEPT !.token.amount = JsStr("1")],
     [Good EXCEPT !.targetChain = NoChain],
     [Good EXCEPT !.targetChain.receiver = JsUndef]}

\* the signed transfer a -> b written with the signature as first member,
\* and a signed body whose targetChain has no chainId (no Transfer by the
\* interface, which isValidTransfer does not notice)
LooseBodies ==
    {[Good EXCEPT !.keys = <<"signature", "sender", "token", "targetChain">>],
     SignedTransfer_sign([Unsigned("a", "b", "T", 1) EXCEPT !.targetChain.chainId = JsUndef],
                         "k_a")}

Bodies == SignedBodies \cup UnverifiedBodies \cup MalformedBodies \cup LooseBodies

Next ==
    \/ \E r \in Reqs, b \in Bodies : Submit(r, b)
    \/ \E r \in Reqs : VerifyDone(r)
    \/ \E r \in Reqs : SignDone(r)
    \/ \E r \in Reqs : CasDone(r)
    \/ \E r \in Reqs : SelectSender(r)
    \/ \E r \in Reqs : SelectReceiver(r)
    \/ \E r \in Reqs : Begin(r)
    \/ \E r \in Reqs : Insert(r)
    \/ \E r \in Reqs : UpdateSender(r)
    \/ \E r \in Reqs : UpdateReceiver(r)
    \/ \E r \in Reqs : Commit(r)
    \/ \E r \in Reqs : ReadSender(r)
    \/ \E r \in Reqs : ReadReceiver(r)
    \/ \E r \in Reqs : Unlock(r)
    \/ \E r \in Reqs : InsertDuplicate(r)
    \/ \E r \in Reqs : StoreFailure(r)
    \/ Tick

Spec == Init /\ [][Next]_vars

\* ------------------------------------------------------------------------
\* DB.setBalance and the GET routes (db.ts, routes.ts)
\* ------------------------------------------------------------------------
Routes == {"/balances", "/balances/:address", "/balances/:address/:token", "/transactions"}

\* SELECT address, token, amount FROM balances on session c
BalanceRows(c) ==
    {[address |-> k[1], token |-> k[2], amount |-> View(conn, balances, c)[k]] :
        k \in DOMAIN balances}

\* the rows a balance route asks for: all, those of the address, or the one
\* of the address and the token
RouteRows(c, route, address, token) ==
    CASE route = "/balances" -> BalanceRows(c)
      [] route = "/balances/:address" -> {b \in BalanceRows(c) : b.address = address}
      [] OTHER -> {b \in BalanceRows(c) : b.address = address /\ b.token = token}

\* setBalance(address, token, amount) is called: the UPDATE is sent through
\* pool.query, outside any transaction and without LOCK_MAP
SetBalanceStart(address, token, amount) ==
    /\ rev.op.pc = "idle"
    /\ rev.op.calls < MaxOps
    /\ rev' = [rev EXCEPT !.op = [NoOp EXCEPT !.pc = "upd", !.method = "setBalance",
                                               !.address = address, !.token = token,
                                               !.amount = amount, !.calls = rev.op.calls + 1]]
    /\ overlapped' = (overlapped \/ Busy)
    /\ LET P == Connect([conn |-> conn, idle |-> idle, pq |-> pendingQueue, cl |-> cl], Op)
       IN /\ conn' = P.conn
          /\ idle' = P.idle
          /\ pendingQueue' = P.pq
          /\ cl' = P.cl
    /\ UNCHANGED <<pc, body, loc, resp, LOCK_MAP, now, failures, balances, transactions>>
    /\ UNCHANGED unitVars

\* the UPDATE returns; getBalancesForAddressAndToken sends its SELECT
SetBalanceUpdate ==
    /\ rev.op.pc = "upd"
    /\ QueryDone(Op, TRUE)
    /\ rev' = [rev EXCEPT !.op.pc = "sel"]
    /\ UNCHANGED revFrame
    /\ UNCHANGED unitVars

\* the SELECT returns: setBalance returns the rows read
SetBalanceSelect ==
    /\ rev.op.pc = "sel"
    /\ cl[Op] # 0
    /\ QueryDone(Op, FALSE)
    /\ rev' = [rev EXCEPT !.op.pc = "idle",
                          !.op.rows = RouteRows(cl[Op], "/balances/:address/:token",
                                                rev.op.address, rev.op.token)]
    /\ UNCHANGED revFrame
    /\ UNCHANGED unitVars

\* a GET request arrives: the handler calls getAllBalances,
\* getBalancesForAddress, getBalancesForAddressAndToken or getTransactions,
\* which sends one SELECT through pool.query
GetStart(route, address, token) ==
    /\ rev.op.pc = "idle"
    /\ rev.op.calls < MaxOps
    /\ rev' = [rev EXCEPT !.op = [NoOp EXCEPT !.pc = "get", !.method = route,
                                               !.address = address, !.token = token,
                                               !.calls = rev.op.calls + 1]]
    /\ overlapped' = (overlapped \/ Busy)
    /\ LET P == Connect([conn |-> conn, idle |-> idle, pq |-> pendingQueue, cl |-> cl], Op)
       IN /\ conn' = P.conn
          /\ idle' = P.idle
          /\ pendingQueue' = P.pq
          /\ cl' = P.cl
    /\ UNCHANGED <<pc, body, loc, resp, LOCK_MAP, now, failures, balances, transactions>>
    /\ UNCHANGED unitVars

\* the SELECT returns: /balances and /transactions answer 200 with the rows;
\* the two routes of an address answer 200 with rows (:token: the first
\* row), and 404 when the SELECT gave none
GetDone ==
    /\ rev.op.pc = "get"
    /\ cl[Op] # 0
    /\ QueryDone(Op, FALSE)
    /\ IF rev.op.method = "/transactions"
       THEN \E rows \in OrderByTsDesc(TxView(conn, transactions, cl[Op])) :
               rev' = [rev EXCEPT !.op.pc = "idle", !.op.list = rows, !.op.status = 200]
       ELSE LET rows == RouteRows(cl[Op], rev.op.method, rev.op.address, rev.op.token)
            IN rev' = [rev EXCEPT !.op.pc = "idle", !.op.rows = rows,
                                  !.op.status = IF rows = {} /\ rev.op.method # "/balances"
                                                THEN 404 ELSE 200]
    /\ UNCHANGED revFrame
    /\ UNCHANGED unitVars

\* the query is rejected: setBalance throws, a GET handler answers 500
OpFailure ==
    /\ rev.op.pc # "idle"
    /\ cl[Op] # 0
    /\ failures < MaxFailures \/ Deadlocked(Op)
    /\ LET P == PoolAfter(Op, TRUE, FALSE)
       IN /\ conn' = P.conn
          /\ idle' = P.idle
          /\ pendingQueue' = P.pq
          /\ cl' = P.cl
    /\ rev' = [rev EXCEPT !.op.pc = "idle", !.op.failed = TRUE,
                          !.op.status = IF rev.op.method = "setBalance" THEN 0 ELSE 500]
    /\ failures' = failures + 1
    /\ UNCHANGED <<pc, body, loc, resp, LOCK_MAP, now, overlapped, balances, transactions>>
    /\ UNCHANGED unitVars

\* The service beside its store's other users: one transfer at a time, calls
\* of setBalance (the tests' set-up of an account) and GET requests
StoreBodies ==
    {SignedTransfer_sign(Unsigned("a", "b", "T", 1), "k_a"),
     SignedTransfer_sign(Unsigned("b", "a", "T", MaxAmount), "k_b")}

StoreNext ==
    \/ \E r \in Reqs, b \in StoreBodies :
          /\ \A q \in Reqs \ {r} : pc[q] \in {"idle", "done"}
          /\ Submit(r, b)
    \/ \E r \in Reqs : VerifyDone(r)
    \/ \E r \in Reqs : SignDone(r)
    \/ \E r \in Reqs : CasDone(r)
    \/ \E r \in Reqs : SelectSender(r)
    \/ \E r \in Reqs : SelectReceiver(r)
    \/ \E r \in Reqs : Begin(r)
    \/ \E r \in Reqs : Insert(r)
    \/ \E r \in Reqs : UpdateSender(r)
    \/ \E r \in Reqs : UpdateReceiver(r)
    \/ \E r \in Reqs : Commit(r)
    \/ \E r \in Reqs : ReadSender(r)
    \/ \E r \in Reqs : ReadReceiver(r)
    \/ \E r \in Reqs : Unlock(r)
    \/ \E r \in Reqs : InsertDuplicate(r)
    \/ \E r \in Reqs : StoreFailure(r)
    \/ Tick
    \/ \E x \in {"a", "n"}, tok \in Tokens, amt \in {0, MaxAmount} : SetBalanceStart(x, tok, amt)
    \/ SetBalanceUpdate
    \/ SetBalanceSelect
    \/ \E route \in Routes, x \in {"a", "n"}, tok \in Tokens : GetStart(route, x, tok)
    \/ GetDone
    \/ OpFailure

StoreSpec == Init /\ [][StoreNext]_vars

\* ------------------------------------------------------------------------
\* The service while its pool is full: GET requests (routes.ts, /balances and
\* /transactions) have their SELECT in flight on all connections but one,
\* and stay in flight; the transfers have the last connection between them.
\* ------------------------------------------------------------------------
SaturatedInit ==
    /\ pc = [r \in Reqs |-> "idle"]
    /\ body = [r \in Reqs |-> NoBody]
    /\ loc = [r \in Reqs |-> NoLoc]
    /\ resp = [r \in Reqs |-> NoResp]
    /\ LOCK_MAP = EmptyFn
    /\ balances = [k \in Holders \X Tokens |-> InitBalance]
    /\ transactions = {}
    /\ conn = [c \in Clients |-> IF c < PoolMax THEN FreshConn ELSE DeadConn]
    /\ idle = <<>>
    /\ pendingQueue = <<>>
    /\ cl = [u \in Users |-> 0]
    /\ now = 0
    /\ failures = 0
    /\ rev = NoRev
    /\ overlapped = FALSE
    /\ threadSafeMap = EmptyFn
    /\ mutex = <<>>
    /\ calls = [c \in Callers |-> NoCall]
    /\ signed = NoSigned

SaturatedSpec == SaturatedInit /\ [][Next]_vars

\* The service with its administrator: signed transfers, among them
\* transfers of more than a balance row holds at start, and calls of
\* revertTransactions; no store query fails for outside reasons.  The
\* transfers arrive one after the other, each of them before, beside or
\* after a call.
RevertPairs == {<<"a", "b">>, <<"b", "c">>, <<"a", "a">>}
RevertAmounts == {MaxAmount, 2 * MaxAmount}
RevertBodies ==
    {SignedTransfer_sign(Unsigned(p[1], p[2], tok, amt), keyOf(p[1])) :
        p \in RevertPairs, tok \in Tokens, amt \in RevertAmounts}

RevertNext ==
    \/ \E r \in Reqs, b \in RevertBodies :
          /\ \A q \in Reqs \ {r} : pc[q] \in {"idle", "done"}
          /\ Submit(r, b)
    \/ \E r \in Reqs : VerifyDone(r)
    \/ \E r \in Reqs : SignDone(r)
    \/ \E r \in Reqs : CasDone(r)
    \/ \E r \in Reqs : SelectSender(r)
    \/ \E r \in Reqs : SelectReceiver(r)
    \/ \E r \in Reqs : Begin(r)
    \/ \E r \in Reqs : Insert(r)
    \/ \E r \in Reqs : UpdateSender(r)
    \/ \E r \in Reqs : UpdateReceiver(r)
    \/ \E r \in Reqs : Commit(r)
    \/ \E r \in Reqs : ReadSender(r)
    \/ \E r \in Reqs : ReadReceiver(r)
    \/ \E r \in Reqs : Unlock(r)
    \/ \E r \in Reqs : InsertDuplicate(r)
    \/ Tick
    \/ RevertStart(Rev)
    \/ RevertList(Rev)
    \/ RevertBegin(Rev)
    \/ RevertSelectSender(Rev)
    \/ RevertSelectReceiver(Rev)
    \/ RevertUpdateSender(Rev)
    \/ RevertUpdateReceiver(Rev)
    \/ RevertMark(Rev)
    \/ RevertCommit(Rev)

RevertSpec == Init /\ [][RevertNext]_vars

\* ------------------------------------------------------------------------
\* Two calls of revertTransactions side by side
\* ------------------------------------------------------------------------
\* the transfers run while no call is running, the calls while no transfer is
\* in flight
OverlapBodies == {Good}

OverlapNext ==
    \/ \E r \in Reqs, b \in OverlapBodies :
          /\ \A i \in Invocations : Inv(i).pc = "idle"
          /\ Submit(r, b)
    \/ \E r \in Reqs : VerifyDone(r)
    \/ \E r \in Reqs : SignDone(r)
    \/ \E r \in Reqs : CasDone(r)
    \/ \E r \in Reqs : SelectSender(r)
    \/ \E r \in Reqs : SelectReceiver(r)
    \/ \E r \in Reqs : Begin(r)
    \/ \E r \in Reqs : Insert(r)
    \/ \E r \in Reqs : UpdateSender(r)
    \/ \E r \in Reqs : UpdateReceiver(r)
    \/ \E r \in Reqs : Commit(r)
    \/ \E r \in Reqs : ReadSender(r)
    \/ \E r \in Reqs : ReadReceiver(r)
    \/ \E r \in Reqs : Unlock(r)
    \/ \E r \in Reqs : InsertDuplicate(r)
    \/ Tick
    \/ \E i \in Invocations : (\A r \in Reqs : pc[r] \in {"idle", "done"}) /\ RevertStart(i)
    \/ \E i \in Invocations : RevertList(i)
    \/ \E i \in Invocations : RevertBegin(i)
    \/ \E i \in Invocations : RevertSelectSender(i)
    \/ \E i \in Invocations : RevertSelectReceiver(i)
    \/ \E i \in Invocations : RevertUpdateSender(i)
    \/ \E i \in Invocations : RevertUpdateReceiver(i)
    \/ \E i \in Invocations : RevertMark(i)
    \/ \E i \in Invocations : RevertCommit(i)

OverlapSpec == Init /\ [][OverlapNext]_vars

\* ------------------------------------------------------------------------
\* revertTransactions with queries that fail
\* ------------------------------------------------------------------------
ResumeNext ==
    \/ \E r \in Reqs, b \in OverlapBodies : Submit(r, b)
    \/ \E r \in Reqs : VerifyDone(r)
    \/ \E r \in Reqs : SignDone(r)
    \/ \E r \in Reqs : CasDone(r)
    \/ \E r \in Reqs : SelectSender(r)
    \/ \E r \in Reqs : SelectReceiver(r)
    \/ \E r \in Reqs : Begin(r)
    \/ \E r \in Reqs : Insert(r)
    \/ \E r \in Reqs : UpdateSender(r)
    \/ \E r \in Reqs : UpdateReceiver(r)
    \/ \E r \in Reqs : Commit(r)
    \/ \E r \in Reqs : ReadSender(r)
    \/ \E r \in Reqs : ReadReceiver(r)
    \/ \E r \in Reqs : Unlock(r)
    \/ \E r \in Reqs : InsertDuplicate(r)
    \/ Tick
    \/ RevertStart(Rev)
    \/ RevertList(Rev)
    \/ RevertBegin(Rev)
    \/ RevertSelectSender(Rev)
    \/ RevertSelectReceiver(Rev)
    \/ RevertUpdateSender(Rev)
    \/ RevertUpdateReceiver(Rev)
    \/ RevertMark(Rev)
    \/ RevertCommit(Rev)
    \/ RevertFailure(Rev)

ResumeSpec == Init /\ [][ResumeNext]_vars

\* The service receiving signed transfers whose amount is any number,
\* positive, zero or negative; no store query fails for outside reasons.
AmountPairs == {<<"a", "b">>, <<"b", "c">>}
AnyAmountBodies ==
    {SignedTransfer_sign(Unsigned(p[1], p[2], tok, amt), keyOf(p[1])) :
        p \in AmountPairs, tok \in Tokens, amt \in (0 - MaxAmount)..MaxAmount}

AmountNext ==
    \/ \E r \in Reqs, b \in AnyAmountBodies : Submit(r, b)
    \/ \E r \in Reqs : VerifyDone(r)
    \/ \E r \in Reqs : SignDone(r)
    \/ \E r \in Reqs : CasDone(r)
    \/ \E r \in Reqs : SelectSender(r)
    \/ \E r \in Reqs : SelectReceiver(r)
    \/ \E r \in Reqs : Begin(r)
    \/ \E r \in Reqs : Insert(r)
    \/ \E r \in Reqs : UpdateSender(r)
    \/ \E r \in Reqs : UpdateReceiver(r)
    \/ \E r \in Reqs : Commit(r)
    \/ \E r \in Reqs : ReadSender(r)
    \/ \E r \in Reqs : ReadReceiver(r)
    \/ \E r \in Reqs : Unlock(r)
    \/ \E r \in Reqs : InsertDuplicate(r)
    \/ Tick

AmountSpec == Init /\ [][AmountNext]_vars

\* ------------------------------------------------------------------------
\* ThreadSafeMap on its own: callers and the mutex
\* ------------------------------------------------------------------------
\* a caller calls a method of the map: mutex.runExclusive queues the body
\* behind the bodies already waiting (`ahead` of them)
Call(c, call) ==
    /\ calls[c].pc = "idle"
    /\ IF c = 1 THEN TRUE ELSE calls[c - 1].pc # "idle"
    /\ calls' = [calls EXCEPT ![c] = [@ EXCEPT !.pc = "waiting", !.call = call,
                                               !.ahead = Len(mutex)]]
    /\ mutex' = Append(mutex, c)
    /\ UNCHANGED <<threadSafeMap, signed>>
    /\ UNCHANGED serviceVars

\* the mutex runs the body that waited longest, to its end, and the call
\* returns: the body of compareAndSetValue, delete or set
RunExclusive ==
    /\ mutex # <<>>
    /\ LET c == Head(mutex)
           call == calls[c].call
           R == CASE call.op = "compareAndSetValue" ->
                        compareAndSetValue(threadSafeMap, call.key, call.value, call.compare)
                  [] call.op = "delete" -> delete(threadSafeMap, call.key)
                  [] call.op = "get" -> [ok |-> TRUE, map |-> threadSafeMap]
                  [] call.op = "has" -> [ok |-> has(threadSafeMap, call.key), map |-> threadSafeMap]
                  [] call.op = "size" -> [ok |-> TRUE, map |-> threadSafeMap]
                  [] OTHER -> [ok |-> TRUE, map |-> set(threadSafeMap, call.key, call.value)]
       IN /\ threadSafeMap' = R.map
          /\ calls' = [calls EXCEPT ![c] =
                 [@ EXCEPT !.pc = "returned", !.result = R.ok,
                           !.oldValue = get(threadSafeMap, call.key),
                           !.got = IF call.op = "get" THEN get(threadSafeMap, call.key)
                                   ELSE undefined,
                           !.count = IF call.op = "size" THEN size(threadSafeMap) ELSE 0,
                           !.ranAt = 1 + Cardinality({d \in Callers : calls[d].pc = "returned"})]]
    /\ mutex' = Tail(mutex)
    /\ UNCHANGED signed
    /\ UNCHANGED serviceVars

MapNext ==
    \/ \E c \in Callers, call \in MapCalls : Call(c, call)
    \/ RunExclusive

MapSpec == Init /\ [][MapNext]_vars

\* every method of the map: get, has, size, set, delete, and
\* compareAndSetValue with the predicates (lock) => !lock and (lock) => lock
LinCalls ==
    {[op |-> o, key |-> k, value |-> FALSE, compare |-> notLocked] :
        o \in {"get", "has", "delete"}, k \in MapKeys}
    \cup {[op |-> "size", key |-> "", value |-> FALSE, compare |-> notLocked]}
    \cup {[op |-> "set", key |-> k, value |-> v, compare |-> notLocked] :
              k \in MapKeys, v \in BOOLEAN}
    \cup {[op |-> "compareAndSetValue", key |-> k, value |-> v, compare |-> f] :
              k \in MapKeys, v \in BOOLEAN, f \in {notLocked, notLocked_Inverted}}

LinNext ==
    \/ \E c \in Callers, call \in LinCalls : Call(c, call)
    \/ RunExclusive

LinSpec == Init /\ [][LinNext]_vars

\* ------------------------------------------------------------------------
\* SignedTransfer on its own: sign, change a member, verify
\* ------------------------------------------------------------------------
\* Transfer objects not yet signed, their members written in the order of
\* the interface or with the token first
KeyOrders == {LiteralKeys, <<"token", "sender", "targetChain", "signature">>}
Payloads ==
    {[Unsigned(s, r, tok, amt) EXCEPT !.keys = o] :
        s \in Addresses, r \in {"b", "c"}, tok \in Tokens, amt \in 1..MaxAmount,
        o \in KeyOrders}

\* the values a member of a signed transfer may be given afterwards
Members == {"sender", "token.address", "token.amount", "targetChain.receiver",
            "targetChain.chainId", "refund", "signature"}
MemberValues(member) ==
    CASE member = "sender" -> {JsStr(x) : x \in Addresses \cup {"0xBAD"}}
      [] member = "token.address" -> {JsStr(x) : x \in Tokens \cup {"U"}}
      [] member = "token.amount" -> {JsNum(n) : n \in 1..MaxAmount} \cup {JsStr("1")}
      [] member = "targetChain.receiver" -> {JsStr(x) : x \in Addresses}
      [] member = "targetChain.chainId" -> {JsNum(ChainId), JsNum(ChainId + 1)}
      [] member = "refund" ->
            {NoRefund} \cup {RefundObj(JsNum(ChainId), JsNum(ts), JsStr("signedTx")) : ts \in 0..MaxClock}
      [] OTHER -> {SigStr(crypto_sign(k, signed.returned.signature.sig.msg)) : k \in PrivateKeys}

\* signed = await SignedTransfer.sign(unsigned, private)
Sign(transfer, key) ==
    /\ signed.pc = "new"
    /\ signed' = [signed EXCEPT !.pc = "signed", !.key = key,
                                !.returned = SignedTransfer_sign(transfer, key),
                                !.transfer = SignedTransfer_sign(transfer, key)]
    /\ UNCHANGED <<threadSafeMap, mutex, calls>>
    /\ UNCHANGED serviceVars

\* isVerified = await SignedTransfer.verify(signed), of the transfer as
\* sign returned it and once more after a member was changed
Verify ==
    /\ signed.pc \in {"signed", "changed"}
    /\ signed' = IF signed.pc = "signed"
                 THEN [signed EXCEPT !.pc = "verified",
                                     !.isVerified = SignedTransfer_verify(signed.transfer)]
                 ELSE [signed EXCEPT !.pc = "reverified",
                                     !.isVerifiedAfter = SignedTransfer_verify(signed.transfer)]
    /\ UNCHANGED <<threadSafeMap, mutex, calls>>
    /\ UNCHANGED serviceVars

\* signed.<member> = value
Tamper(member, value) ==
    /\ signed.pc = "verified"
    /\ LET t == signed.transfer
           u == CASE member = "sender" -> [t EXCEPT !.sender = value]
                  [] member = "token.address" -> [t EXCEPT !.token.address = value]
                  [] member = "token.amount" -> [t EXCEPT !.token.amount = value]
                  [] member = "targetChain.receiver" -> [t EXCEPT !.targetChain.receiver = value]
                  [] member = "targetChain.chainId" -> [t EXCEPT !.targetChain.chainId = value]
                  [] member = "refund" -> [t EXCEPT !.refund = value]
                  [] OTHER -> [t EXCEPT !.signature = value]
       IN /\ u # t
          /\ signed' = [signed EXCEPT !.pc = "changed", !.transfer = u]
    /\ UNCHANGED <<threadSafeMap, mutex, calls>>
    /\ UNCHANGED serviceVars

\* refund = await SignedTransfer.signForRefund(signed, private), at time ts
SignForRefund(key, ts) ==
    /\ signed.pc = "signed"
    /\ signed' = [signed EXCEPT !.pc = "refund", !.refundKey = key,
                                !.refundReturned = signForRefund(signed.transfer, key, ts),
                                !.refund = signForRefund(signed.transfer, key, ts)]
    /\ UNCHANGED <<threadSafeMap, mutex, calls>>
    /\ UNCHANGED serviceVars

\* refund.tx = another tx: another time, or the hash of another transfer
TamperRefund(tx) ==
    /\ signed.pc = "refund"
    /\ tx # signed.refund.tx
    /\ signed' = [signed EXCEPT !.pc = "refundChanged", !.refund.tx = tx]
    /\ UNCHANGED <<threadSafeMap, mutex, calls>>
    /\ UNCHANGED serviceVars

\* isVerified = await SignedTransfer.verifyRefund(refund, address)
VerifyRefund(address) ==
    /\ signed.pc \in {"refund", "refundChanged"}
    /\ signed' = [signed EXCEPT !.pc = "refundVerified", !.refundAddress = address,
                                !.isRefundVerified = verifyRefund(signed.refund, address)]
    /\ UNCHANGED <<threadSafeMap, mutex, calls>>
    /\ UNCHANGED serviceVars

SignNext ==
    \/ \E transfer \in Payloads, key \in PrivateKeys : Sign(transfer, key)
    \/ Verify
    \/ \E member \in Members : \E value \in MemberValues(member) : Tamper(member, value)
    \/ \E key \in {solver.private, "k_a"}, ts \in 0..MaxClock : SignForRefund(key, ts)
    \/ \E ts \in 0..MaxClock, t \in {signed.transfer, NoBody} : TamperRefund(RefundTx(ts, txHash(t)))
    \/ \E address \in {solver.address, "a"} : VerifyRefund(address)

SignSpec == Init /\ [][SignNext]_vars

\* ------------------------------------------------------------------------
\* Properties
\* ------------------------------------------------------------------------
\* request r has acquired the lock of its key and not yet released it, and
\* its handler is still running
InSection(r) == pc[r] \in DbPcs \cup {"unlock"}

\* every submitted request has been answered and its handler has ended
Quiescent == \A r \in Reqs : pc[r] \in {"idle", "done"}

RECURSIVE SumOver(_, _)
SumOver(S, f) ==
    IF S = {} THEN 0
    ELSE LET x == CHOOSE y \in S : TRUE IN f[x] + SumOver(S \ {x}, f)

\* requests answered 200 that send from / pay to address x in token t
AcceptedFrom(x, t) ==
    {r \in Reqs : resp[r].status = 200 /\ Sender(r) = x /\ TokenAddr(r) = t}
AcceptedTo(x, t) ==
    {r \in Reqs : resp[r].status = 200 /\ Receiver(r) = x /\ TokenAddr(r) = t}
AmountOf == [r \in Reqs |-> Amount(r)]

\* C1: Mutual exclusion per triple: no two requests with the same
\* (sender, receiver, token address) are at the same time between their
\* successful compareAndSetValue and their LOCK_MAP.delete.
C1_MutualExclusion ==
    \A r1, r2 \in Reqs :
        (r1 # r2 /\ InSection(r1) /\ InSection(r2)) => lockKey(r1) # lockKey(r2)

\* a request works under the lock while a second one for the same triple has
\* been turned away
C1_Witness ==
    \E r1, r2 \in Reqs :
        /\ r1 # r2
        /\ pc[r1] = "commit"
        /\ resp[r2] = Conflict
        /\ lockKey(r1) = lockKey(r2)

\* C2: Lock release on every exit path: whenever no transfer request for a
\* key is in flight, that key is not held.
C2_LockReleased ==
    \A k \in DOMAIN LOCK_MAP :
        LOCK_MAP[k] => \E r \in Reqs : InSection(r) /\ lockKey(r) = k

\* no accepted request pays its own sender
NoSelfTransfer ==
    \A r \in Reqs : resp[r].status = 200 => Sender(r) # Receiver(r)

\* C3: No concurrent double-spend of one source balance: two accepted
\* transfers of one sender and token (neither paying the sender) are never
\* both computed from the same read of the sender's balance; and when all
\* requests have finished (no store query failed, no transfer paid its own
\* sender), the balance of every account is its initial balance minus the
\* amounts it sent plus the amounts it received in accepted transfers.
C3_NoDoubleSpend ==
    /\ \A r1, r2 \in Reqs :
          (/\ r1 # r2
           /\ resp[r1].status = 200 /\ resp[r2].status = 200
           /\ Sender(r1) = Sender(r2) /\ TokenAddr(r1) = TokenAddr(r2)
           /\ Receiver(r1) # Sender(r1) /\ Receiver(r2) # Sender(r2))
          => loc[r1].senderBalance_amount # loc[r2].senderBalance_amount
    /\ (Quiescent /\ failures = 0 /\ NoSelfTransfer) =>
          \A k \in DOMAIN balances :
              balances[k] = InitBalance - SumOver(AcceptedFrom(k[1], k[2]), AmountOf)
                                        + SumOver(AcceptedTo(k[1], k[2]), AmountOf)

\* C4: Conservation per accepted transfer: the balances returned with 200
\* to a transfer between two different accounts are the balances read under
\* the lock, moved by the amount (in the runs where no store query failed).
C4_Conservation ==
    \A r \in Reqs :
        (resp[r].status = 200 /\ Sender(r) # Receiver(r) /\ failures = 0) =>
            /\ resp[r].sender = loc[r].senderBalance_amount - Amount(r)
            /\ resp[r].sender + resp[r].receiver =
                   loc[r].senderBalance_amount + loc[r].receiverBalance_amount

\* C5: Balance non-negativity under transfers with positive amounts: every
\* balance, committed or written in an open transaction, is >= 0.
C5_NonNegative ==
    /\ \A k \in DOMAIN balances : balances[k] >= 0
    /\ \A c \in Clients : \A k \in DOMAIN conn[c].wbal : conn[c].wbal[k] >= 0

\* a sender has been brought down to the smallest balance the sufficiency
\* check allows
C5_Witness ==
    \E r \in Reqs :
        /\ resp[r].status = 200
        /\ balances[<<Sender(r), TokenAddr(r)>>] = 1

\* the committed store after the whole commit unit of request r: the record
\* appended, the sender's balance decremented, the receiver's incremented
CommitUnit(r) ==
    /\ transactions' = transactions \cup {TxRecord(r)}
    /\ TxRecord(r) \notin transactions
    /\ balances' =
          [balances EXCEPT
              ![<<Sender(r), TokenAddr(r)>>] = loc[r].senderBalance_amount - Amount(r),
              ![<<Receiver(r), TokenAddr(r)>>] = loc[r].receiverBalance_amount + Amount(r)]

\* C6: Atomic commit: the committed store (what a reader on a connection of
\* its own observes) changes only by the three effects of one accepted
\* transfer together, never by a proper subset of them.  Stated for the runs
\* in which no store query has failed, where the claim is already violated.
C6_AtomicCommit ==
    [][\/ failures' > 0
       \/ (balances' = balances /\ transactions' = transactions)
       \/ \E r \in Reqs : pc[r] = "commit" /\ CommitUnit(r)]_vars

\* no session holds an uncommitted write that it did not hold before
NoNewWrites ==
    /\ balances' = balances
    /\ transactions' = transactions
    /\ \A c \in Clients : conn'[c].wbal = conn[c].wbal /\ conn'[c].wtx = conn[c].wtx

\* C7: Sufficiency boundary: a request that holds the lock and has found
\* both balance rows is answered InsufficientFunds whenever amount >=
\* senderBalance (equality included) and goes on to the commit only when
\* amount < senderBalance; the rejection writes nothing, and the lock is
\* released when the rejected request ends.
C7_SufficiencyBoundary ==
    [][\A r \in Reqs :
        /\ (/\ pc[r] = "selR"
            /\ pc'[r] # "selR"
            /\ resp'[r] \notin {InternalError, ReceiverBalanceMissing})
           => IF Amount(r) >= loc[r].senderBalance_amount
              THEN /\ resp'[r] = InsufficientFunds
                   /\ pc'[r] = "unlock"
                   /\ NoNewWrites
              ELSE /\ resp'[r] = NoResp
                   /\ pc'[r] = "begin"
        /\ resp[r].status = 200 => Amount(r) < loc[r].senderBalance_amount
        /\ resp[r] = InsufficientFunds => pc[r] \in {"unlock", "done"}
        /\ (resp[r] = InsufficientFunds /\ pc[r] = "unlock" /\ pc'[r] # "unlock")
           => /\ pc'[r] = "done"
              /\ lockKey(r) \notin DOMAIN LOCK_MAP'
              /\ NoNewWrites]_vars

\* a transfer of exactly the sender's whole balance has been rejected and
\* has ended
C7_Witness ==
    \E r \in Reqs :
        /\ pc[r] = "done"
        /\ resp[r] = InsufficientFunds
        /\ Amount(r) = loc[r].senderBalance_amount
        /\ lockKey(r) \notin DOMAIN LOCK_MAP

\* C8: Same-triple race: a request whose lock attempt happens while another
\* request for the same triple holds the lock is answered Conflict, the
\* attempt leaves the holder and the lock entry as they are, and two requests
\* for the same triple are never both inside the locked section.
C8_SameTripleRace ==
    [][\A r, h \in Reqs :
        /\ (/\ r # h
            /\ pc[r] = "cas"
            /\ pc'[r] # "cas"
            /\ InSection(h)
            /\ lockKey(h) = lockKey(r))
           => /\ resp'[r] = Conflict
              /\ pc'[r] = "done"
              /\ pc'[h] = pc[h]
              /\ LOCK_MAP' = LOCK_MAP
              /\ NoNewWrites
        /\ (r # h /\ lockKey(h) = lockKey(r)) => ~(InSection(r)' /\ InSection(h)')]_vars

\* the holder has been accepted and has ended, the request that met it in
\* the locked section was answered Conflict
C8_Witness ==
    \E r, h \in Reqs :
        /\ r # h
        /\ lockKey(h) = lockKey(r)
        /\ resp[r] = Conflict
        /\ resp[h].status = 200
        /\ pc[h] = "done"

\* the five members the shape validation is stated for
ListedMembersOK(obj) ==
    /\ obj.sender.t = "string"
    /\ obj.token.t = "object"
    /\ obj.token.address.t = "string"
    /\ obj.token.amount.t = "number"
    /\ obj.targetChain.t = "object"
    /\ obj.targetChain.receiver.t = "string"
    /\ obj.signature.t = "string"

\* C9: Shape validation: a body in which a required member is absent or of
\* the wrong type (the token or targetChain object included) is answered
\* InvalidShape, and the request takes no lock and touches no balance and no
\* record.
C9_ShapeValidation ==
    [][\A r \in Reqs :
        (pc[r] = "idle" /\ pc'[r] # "idle" /\ ~ListedMembersOK(body'[r]))
           => /\ resp'[r] = InvalidShape
              /\ pc'[r] = "done"
              /\ LOCK_MAP' = LOCK_MAP
              /\ NoNewWrites]_vars

\* C10: Signature gate: a shape-valid transfer whose signature does not
\* verify against its sender is answered BadSignature before any lock
\* attempt; lock map, balances and records are unchanged.
C10_SignatureGate ==
    [][\A r \in Reqs :
        (pc[r] = "verify" /\ pc'[r] # "verify" /\ SignedTransfer_verify(body[r]) # "true")
           => /\ resp'[r] = BadSignature
              /\ pc'[r] = "done"
              /\ LOCK_MAP' = LOCK_MAP
              /\ NoNewWrites]_vars

\* request r has been answered that a balance row is missing
MissingRow(r) == resp[r] \in {SenderBalanceMissing, ReceiverBalanceMissing}

\* C11: Missing balance rows: under the lock, a missing sender row is
\* answered SenderBalanceMissing, and with the sender row present a missing
\* receiver row is answered ReceiverBalanceMissing; the step writes nothing,
\* and the request then ends with its lock key removed, again writing nothing.
C11_MissingRows ==
    [][\A r \in Reqs :
        /\ (/\ pc[r] = "selS" /\ pc'[r] # "selS" /\ resp'[r] # InternalError
            /\ <<Sender(r), TokenAddr(r)>> \notin DOMAIN balances)
           => /\ resp'[r] = SenderBalanceMissing
              /\ pc'[r] = "unlock"
              /\ NoNewWrites
        /\ (/\ pc[r] = "selR" /\ pc'[r] # "selR" /\ resp'[r] # InternalError
            /\ <<Receiver(r), TokenAddr(r)>> \notin DOMAIN balances)
           => /\ resp'[r] = ReceiverBalanceMissing
              /\ pc'[r] = "unlock"
              /\ NoNewWrites
        /\ MissingRow(r) => pc[r] \in {"unlock", "done"}
        /\ (MissingRow(r) /\ pc[r] = "unlock" /\ pc'[r] # "unlock")
           => /\ pc'[r] = "done"
              /\ lockKey(r) \notin DOMAIN LOCK_MAP'
              /\ NoNewWrites]_vars

\* one request has ended on a missing sender row and another on a missing
\* receiver row, both with their lock keys removed
C11_Witness ==
    \E r1, r2 \in Reqs :
        /\ pc[r1] = "done" /\ resp[r1] = SenderBalanceMissing
        /\ pc[r2] = "done" /\ resp[r2] = ReceiverBalanceMissing
        /\ lockKey(r1) \notin DOMAIN LOCK_MAP
        /\ lockKey(r2) \notin DOMAIN LOCK_MAP
        /\ transactions = {}

\* the balance rows as they were before any transfer
InitialBalances == [k \in Holders \X Tokens |-> InitBalance]

\* revertTransactions returns in this step
RevertReturns == rev.pc # "idle" /\ rev'.pc = "idle"

\* C12: Revert restores the pre-history state: the list revertTransactions
\* works on is in descending tx_ts order and is worked on from its head; and
\* when the call returns after transfers that ran one after another, none of
\* them during the call, every record is reverted and every balance is what
\* it was before the first transfer.
C12_RevertRestores ==
    [][/\ \A i, j \in 1..Len(rev'.todo) :
              i < j => rev'.todo[i].tx_ts >= rev'.todo[j].tx_ts
       /\ (rev.pc = "commit" /\ rev'.pc = "begin") => rev'.todo = Tail(rev.todo)
       /\ (rev.pc \notin {"idle", "list", "commit"}) => rev'.todo = rev.todo
       /\ (RevertReturns /\ ~overlapped)
          => /\ \A t \in transactions' : t.reverted
             /\ balances' = InitialBalances]_vars

\* two transfers accepted at different times, one after the other, have both
\* been reverted by a call that has returned
C12_Witness ==
    /\ ~overlapped
    /\ rev.pc = "idle"
    /\ rev.calls = 1
    /\ \A r \in Reqs : pc[r] = "done" /\ resp[r].status = 200
    /\ \E t1, t2 \in transactions : t1.tx_ts < t2.tx_ts
    /\ \A t \in transactions : t.reverted
    /\ balances = InitialBalances

\* C13: Revert idempotence: a call of revertTransactions that finds every
\* record reverted, with no transfer running, returns at once and changes no
\* balance and no record; after transfers that ran one after another the
\* balances then are the initial ones, every amount given back once.
C13_RevertIdempotent ==
    [][(/\ rev.pc = "list" /\ rev'.pc # "list"
        /\ rev.calls >= 2
        /\ Quiescent
        /\ \A t \in transactions : t.reverted)
       => /\ rev'.pc = "idle"
          /\ rev'.result = <<>>
          /\ balances' = balances
          /\ transactions' = transactions
          /\ \A c \in Clients : conn'[c].wbal = EmptyFn /\ conn'[c].wrev = {}
          /\ ~overlapped => balances' = InitialBalances]_vars

\* a second call has returned on a history of two accepted transfers that
\* the first call had reverted
C13_Witness ==
    /\ rev.pc = "idle"
    /\ rev.calls = 2
    /\ rev.result = <<>>
    /\ ~overlapped
    /\ Cardinality(transactions) = 2
    /\ \A t \in transactions : t.reverted
    /\ \A r \in Reqs : pc[r] = "done" /\ resp[r].status = 200
    /\ balances = InitialBalances

\* C14: Bulk reversal keeps the balance invariant: no balance row, committed
\* or written in an open transaction, is ever negative while transfers and
\* revertTransactions run.
C14_RevertNonNegative ==
    /\ \A k \in DOMAIN balances : balances[k] >= 0
    /\ \A c \in Clients : \A k \in DOMAIN conn[c].wbal : conn[c].wbal[k] >= 0

\* C15: A signed Transfer is consumed exactly once: of the requests that
\* carry the same signed payload at most one is answered 200.
C15_ConsumedOnce ==
    \A r1, r2 \in Reqs :
        (r1 # r2 /\ body[r1] = body[r2] /\ resp[r1].status = 200)
            => resp[r2].status # 200

\* C16: Positive amounts only: every request answered 200 and every record
\* of the ledger has amount > 0, and a step of a request whose amount is not
\* positive changes no committed balance.
C16_PositiveAmounts ==
    [][/\ \A r \in Reqs : resp'[r].status = 200 => Amount(r)' > 0
       /\ \A t \in transactions' : t.amount > 0
       /\ \A r \in Reqs :
             (pc[r] \in DbPcs /\ pc'[r] # pc[r] /\ Amount(r) <= 0 /\ cl[r] # 0
              /\ \A q \in Reqs \ {r} : pc[q] \in {"idle", "done"})
             => balances' = balances]_vars

\* compareAndSetValue(key, true, v => !v)
TryLockCall(k) == [op |-> "compareAndSetValue", key |-> k, value |-> TRUE, compare |-> notLocked]

\* the callers of S have all made that call on k and returned, with no
\* other call on k run between the first and the last of them
TryLockRun(S, k) ==
    /\ S # {}
    /\ \A c \in S : calls[c].pc = "returned" /\ calls[c].call = TryLockCall(k)
    /\ \A d \in Callers \ S :
          (calls[d].pc = "returned" /\ calls[d].call.key = k)
          => \/ \A c \in S : calls[d].ranAt < calls[c].ranAt
             \/ \A c \in S : calls[d].ranAt > calls[c].ranAt

\* C17: Compare-and-set mutual exclusion: of any number of concurrent
\* compareAndSetValue(key, true, v => !v) calls on one key that was absent
\* or held false when the first of them ran, with no delete (or other call
\* on the key) in between, exactly one returns true and all others false.
C17_CasMutualExclusion ==
    \A k \in MapKeys, S \in SUBSET Callers :
        (/\ TryLockRun(S, k)
         /\ \E c \in S :
               /\ \A d \in S : calls[c].ranAt <= calls[d].ranAt
               /\ ~calls[c].oldValue.defined \/ ~calls[c].oldValue.value)
        => Cardinality({c \in S : calls[c].result}) = 1

\* three calls that waited on the mutex together, on an absent key: one true
C17_Witness ==
    /\ TryLockRun(Callers, "key1")
    /\ \A c \in Callers : calls[c].ahead = c - 1
    /\ \E c \in Callers : ~calls[c].oldValue.defined
    /\ Cardinality({c \in Callers : calls[c].result}) = 1
    /\ Cardinality({c \in Callers : ~calls[c].result}) = NumCallers - 1

\* C18: Compare-and-set semantics: compareAndSetValue(key, newValue,
\* predicate) sets the key to newValue and returns true if the key is absent
\* (whatever the predicate) or predicate(current value) is true; otherwise
\* it returns false and the map is unchanged.
C18_CasSemantics ==
    [][\A c \in Callers :
          (calls[c].pc = "waiting" /\ calls'[c].pc = "returned"
           /\ calls[c].call.op = "compareAndSetValue")
          => LET call == calls[c].call
                 absent == call.key \notin DOMAIN threadSafeMap
                 holds == IF absent THEN TRUE ELSE call.compare[threadSafeMap[call.key]]
             IN IF holds
                THEN /\ calls'[c].result
                     /\ call.key \in DOMAIN threadSafeMap'
                     /\ threadSafeMap'[call.key] = call.value
                     /\ \A k \in MapKeys \ {call.key} :
                           get(threadSafeMap', k) = get(threadSafeMap, k)
                ELSE /\ ~calls'[c].result
                     /\ threadSafeMap' = threadSafeMap]_vars

\* a call on an absent key with a predicate that is never true has set the
\* key, a call whose predicate held has set it again, a call whose
\* predicate did not hold has returned false
C18_Witness ==
    \E c1, c2, c3 \in Callers :
        /\ \A c \in {c1, c2, c3} :
              calls[c].pc = "returned" /\ calls[c].call.op = "compareAndSetValue"
        /\ ~calls[c1].oldValue.defined /\ calls[c1].result
        /\ calls[c1].call.compare = [v \in BOOLEAN |-> FALSE]
        /\ calls[c2].oldValue.defined /\ calls[c2].result
        /\ calls[c2].call.value # calls[c2].oldValue.value
        /\ calls[c3].oldValue.defined /\ ~calls[c3].result
        /\ threadSafeMap[calls[c3].call.key] = calls[c3].oldValue.value
        /\ calls[c3].call.value # calls[c3].oldValue.value

\* the payload members of two transfers are the same
SamePayload(t, u) ==
    /\ t.sender = u.sender
    /\ t.token = u.token
    /\ t.targetChain = u.targetChain

\* C19: Signature round-trip: for every private key and every transfer
\* payload, verify of the transfer signed with that key is true when the
\* sender is the key's own address and false when it is a different address;
\* with the signature replaced by one that a different key produced over the
\* same payload it is false; and the same holds of crypto sign / verify.
C19_RoundTrip ==
    /\ signed.isVerified # "none" =>
          signed.isVerified =
              (IF signed.returned.sender.s = addressOf(signed.key) THEN "true" ELSE "false")
    /\ (/\ signed.isVerifiedAfter # "none"
        /\ SamePayload(signed.transfer, signed.returned)
        /\ addressOf(signed.transfer.signature.sig.key) # signed.transfer.sender.s)
       => signed.isVerifiedAfter = "false"
    /\ signed.pc # "new" =>
          \A k \in PrivateKeys, x \in Addresses \cup {solver.address} :
              crypto_verify(x, crypto_sign(k, sensitiveInfo(signed.transfer)),
                            sensitiveInfo(signed.transfer))
                  = (IF x = addressOf(k) THEN "true" ELSE "false")

\* C20: Tamper-evidence: after a transfer is signed, changing any of
\* sender, token address, amount, receiver or chainId makes verify return
\* false, while attaching or changing the refund leaves the result of verify
\* as it was.
C20_TamperEvidence ==
    signed.isVerifiedAfter # "none" =>
        /\ ~SamePayload(signed.transfer, signed.returned) => signed.isVerifiedAfter = "false"
        /\ signed.transfer.refund # signed.returned.refund
               => signed.isVerifiedAfter = signed.isVerified

\* C21: Refund proof: a refund that signForRefund produced with the solver's
\* key verifies under verifyRefund against the solver's address, and
\* verifyRefund returns false for it once its tx was altered with signedTx
\* unchanged.
C21_RefundProof ==
    (/\ signed.isRefundVerified # "none"
     /\ signed.refundKey = solver.private
     /\ signed.refundAddress = solver.address
     /\ signed.refund.signedTx = signed.refundReturned.signedTx)
    => signed.isRefundVerified =
           (IF signed.refund.tx = signed.refundReturned.tx THEN "true" ELSE "false")

\* the solver's refund with another time in its tx has been verified
C21_Witness ==
    /\ signed.isRefundVerified = "false"
    /\ signed.refundKey = solver.private
    /\ signed.refundAddress = solver.address
    /\ signed.refund.signedTx = signed.refundReturned.signedTx
    /\ signed.refund.tx.hash = signed.refundReturned.tx.hash
    /\ signed.refund.tx.now # signed.refundReturned.tx.now

\* C22: verify is a total predicate: a shape-valid transfer whose signature
\* or sender address is malformed makes SignedTransfer.verify return false,
\* and the request that carries it is answered BadSignature.
C22_VerifyTotal ==
    \A r \in Reqs :
        (/\ pc[r] # "idle"
         /\ isValidTransfer(body[r]) = "true"
         /\ body[r].signature.sig.kind = "malformed" \/ ~isAddress(Sender(r)))
        => /\ SignedTransfer_verify(body[r]) = "false"
           /\ pc[r] = "done" => resp[r] = BadSignature

\* the rows of table transactions, committed or inserted in an open
\* transaction
AllRows == transactions \cup UNION {conn[c].wtx : c \in Clients}

\* row u is row t, with nothing but the reverted flag changed, and that
\* only from false to true
SameRecord(t, u) ==
    /\ [u EXCEPT !.reverted = t.reverted] = t
    /\ t.reverted => u.reverted

\* C23: Transaction records are append-only with a monotone reverted flag:
\* across transfers and revertTransactions calls no committed record is
\* deleted, no field but reverted ever changes, reverted never goes from
\* true back to false, and every record is created with reverted = false.
C23_AppendOnly ==
    [][/\ \A t \in transactions : \E u \in transactions' : SameRecord(t, u)
       /\ \A u \in transactions' :
             \/ \E t \in AllRows : SameRecord(t, u)
             \/ ~u.reverted
       /\ \A u \in AllRows' : (\A t \in AllRows : ~SamePK(t, u)) => ~u.reverted]_vars

\* a reverted record and a record appended after the revert
C23_Witness ==
    /\ rev.calls = 1
    /\ rev.pc = "idle"
    /\ \E t, u \in transactions : t.reverted /\ ~u.reverted /\ t.tx_ts < u.tx_ts

\* ------------------------------------------------------------------------
\* The service and the map under fair scheduling
\* ------------------------------------------------------------------------
\* pg-pool removes a connection that stayed idle for idleTimeoutMillis (the
\* pool is made with the default of 10 s); the server rolls back what the
\* session left open
IdleTimeout(c) ==
    /\ \E i \in 1..Len(idle) : idle[i] = c
    /\ idle' = SelectSeq(idle, LAMBDA x : x # c)
    /\ conn' = [conn EXCEPT ![c] = DeadConn]
    /\ UNCHANGED <<pendingQueue, cl, balances, transactions>>
    /\ UNCHANGED <<pc, body, loc, resp, LOCK_MAP, now, failures, rev, overlapped>>
    /\ UNCHANGED unitVars

\* the requests of the fair runs, one for each answer of the handler: accepted
\* (200; sent twice: 409, or 500 by the rejected INSERT), accepted on the same
\* two rows under another lock key (b -> a: its statements wait for the row
\* locks of a -> b, or the two are in a deadlock), more than the balance
\* (403), receiver without a row (404), sender without a row (404), signature
\* of another key (403), not signed (verify throws: 500), sender not a string
\* (400), no token (isValidTransfer throws: 500)
FairBodies ==
    {SignedTransfer_sign(Unsigned("a", "b", "T", 1), "k_a"),
     SignedTransfer_sign(Unsigned("b", "a", "T", 1), "k_b"),
     SignedTransfer_sign(Unsigned("a", "b", "T", InitBalance), "k_a"),
     SignedTransfer_sign(Unsigned("a", "n", "T", 1), "k_a"),
     SignedTransfer_sign(Unsigned("n", "b", "T", 1), "k_n"),
     SignedTransfer_sign(Unsigned("a", "b", "T", 1), "k_b"),
     Unsigned("a", "b", "T", 1),
     [Good EXCEPT !.sender = JsUndef],
     [Good EXCEPT !.token = NoToken]}

\* the calls the service makes on its lock map
LockCalls ==
    {TryLockCall("key1"),
     [op |-> "delete", key |-> "key1", value |-> FALSE, compare |-> notLocked]}

\* the steps of the handler of request r that wait for nothing outside the
\* process: the signature checks and the calls of the lock map
LocalStep(r) ==
    \/ VerifyDone(r)
    \/ SignDone(r)
    \/ CasDone(r)
    \/ Unlock(r)

\* the steps of the handler of request r that follow an answer of the store
\* to its pool.query
StoreAnswer(r) ==
    \/ SelectSender(r)
    \/ SelectReceiver(r)
    \/ Begin(r)
    \/ Insert(r)
    \/ UpdateSender(r)
    \/ UpdateReceiver(r)
    \/ Commit(r)
    \/ ReadSender(r)
    \/ ReadReceiver(r)
    \/ InsertDuplicate(r)

\* the store ends a deadlock of its sessions: it rejects the statement of
\* one of them
DeadlockEnded(r) == Deadlocked(r) /\ StoreFailure(r)

\* a run is one of the service or one of the callers of a map on its own
FairNext ==
    \/ \E r \in Reqs, b \in FairBodies : calls[1].pc = "idle" /\ Submit(r, b)
    \/ \E r \in Reqs : LocalStep(r)
    \/ \E r \in Reqs : StoreAnswer(r)
    \/ \E r \in Reqs : DeadlockEnded(r)
    \/ \E r \in Reqs : StoreFailure(r)
    \/ Tick
    \/ \E c \in Clients : IdleTimeout(c)
    \/ \E c \in Callers, call \in LockCalls : pc[1] = "idle" /\ Call(c, call)
    \/ RunExclusive

\* the scheduling of the process: the event loop runs every continuation
\* that is ready, the mutex runs the body at its head
Fairness ==
    /\ \A r \in Reqs : WF_vars(LocalStep(r))
    /\ WF_vars(RunExclusive)

\* the store does its part: it answers a statement that waits for no row
\* lock, and it ends a deadlock
StoreAnswers ==
    /\ \A r \in Reqs : WF_vars(StoreAnswer(r))
    /\ WF_vars(\E r \in Reqs : DeadlockEnded(r))

FairSpec == Init /\ [][FairNext]_vars /\ Fairness

\* the position of the handler in its code
PcRank(p) ==
    CASE p = "idle" -> 0 [] p = "verify" -> 1 [] p = "sign" -> 2 [] p = "cas" -> 3
      [] p = "selS" -> 4 [] p = "selR" -> 5 [] p = "begin" -> 6 [] p = "insert" -> 7
      [] p = "updS" -> 8 [] p = "updR" -> 9 [] p = "commit" -> 10 [] p = "selS2" -> 11
      [] p = "selR2" -> 12 [] p = "unlock" -> 13 [] OTHER -> 14

\* C24: Fail-fast, non-blocking processing: the handler of a transfer only
\* moves forward in its code, so it makes at most one lock attempt and never
\* retries; the lock attempt is never made to wait, whatever the state of the
\* lock; a response once given is never replaced; under fair scheduling
\* every request that was received ends with a response, also when its
\* statements wait for the row locks of the other request or the two are in
\* a deadlock, as long as the store does its part; every call of the map
\* returns.  (A request that has ended stays ended and a call that has
\* returned stays returned, so each of them ends exactly when, again and
\* again, none is under way.)
C24_FailFast ==
    /\ [][\A r \in Reqs : pc'[r] # pc[r] => PcRank(pc'[r]) > PcRank(pc[r])]_vars
    /\ [][\A r \in Reqs : PcRank(pc[r]) < 3 /\ PcRank(pc'[r]) > 3 => pc'[r] = "done"]_vars
    /\ [](\A r \in Reqs : pc[r] = "cas" => ENABLED CasDone(r))
    /\ [][\A r \in Reqs : resp[r].status # 0 => resp'[r] = resp[r]]_vars
    /\ [](\A r \in Reqs : pc[r] = "done" => resp[r].status # 0)
    /\ StoreAnswers => []<>(\A r \in Reqs : pc[r] \in {"idle", "done"})
    /\ []<>(\A c \in Callers : calls[c].pc # "waiting")

\* a request was answered Conflict while the holder of the lock was at
\* work, and both have ended
C24_Witness ==
    \E r, q \in Reqs : /\ resp[r] = Conflict /\ resp[q].status = 200
                        /\ pc[r] = "done" /\ pc[q] = "done"

\* C25: Conflict has no side effects: the step that answers a request with
\* Conflict, and every step of that request before it, changes no balance,
\* appends no transaction record, writes nothing in any open transaction and
\* leaves the lock map as it is; the entry of the triple is still there and
\* still held after the answer.
C25_ConflictNoEffect ==
    [][\A r \in Reqs :
        (pc'[r] # pc[r] /\ (PcRank(pc'[r]) <= 3 \/ resp'[r] = Conflict))
        => /\ NoNewWrites
           /\ LOCK_MAP' = LOCK_MAP
           /\ resp'[r] = Conflict =>
                 /\ lockKey(r) \in DOMAIN LOCK_MAP'
                 /\ LOCK_MAP'[lockKey(r)]
                 /\ pc'[r] = "done"]_vars

\* a request has been answered Conflict and has ended while the holder of
\* the lock is still at work with the store, its lock still held
C25_Witness ==
    \E r, h \in Reqs :
        /\ resp[r] = Conflict
        /\ pc[r] = "done"
        /\ pc[h] \in DbPcs
        /\ lockKey(h) = lockKey(r)
        /\ LOCK_MAP[lockKey(r)]

\* C26: Revert acts at most once per transaction: an iteration of
\* revertTransactions changes balances only for a transaction that still has
\* reverted = false, so that no amount is added back to its sender twice,
\* also when two calls overlap.  Stated for a transaction that is the only
\* record of its id, with no query failed so far: once it is flagged, its
\* amount has been added back, and no iteration raises its sender's balance
\* for it again.
C26_RevertOnce ==
    [][\A i \in Invocations :
        (/\ Inv(i).pc = "updS"
         /\ Inv(i)'.pc = "updR"
         /\ \A r \in Reqs : resp[r].status # 500
         /\ \A u \in transactions : u.tx_id = RevTx(i).tx_id => SamePK(u, RevTx(i)))
        => ~ \E t \in TxView(conn, transactions, cl[i]) :
                 /\ SamePK(t, RevTx(i))
                 /\ t.reverted
                 /\ Inv(i).senderAmount > View(conn, balances, cl[i])[<<t.sender, t.token>>]]_vars

\* C28: Per-transaction revert unit: a record has reverted = true if and
\* only if its own balance delta has been reversed; one iteration of
\* revertTransactions reverses the balances of one record and flags exactly
\* that record, the one with its timestamp and id, never another record of
\* the same id.  Stated on the step that flags: every row whose flag the
\* UPDATE of an iteration sets is the row the iteration is about.
C28_RevertUnit ==
    [][\A i \in Invocations :
        (Inv(i).pc = "mark" /\ Inv(i)'.pc = "commit")
        => \A t \in TxView(conn, transactions, cl[i]) :
             \A u \in TxView(conn', transactions', cl[i]) :
                (SamePK(t, u) /\ ~t.reverted /\ u.reverted) => SamePK(t, RevTx(i))]_vars

\* C27: Resumable revert: when a call of revertTransactions stops with a
\* failed query, the transactions it had not yet processed are untouched
\* (still reverted = false); and when, with nothing else running in between
\* at the same time, a later call completes, every transaction is reverted
\* and the balances are those an uninterrupted run ends with, the initial
\* ones.
C27_Resumable ==
    [][/\ (rev.pc \notin {"idle", "list"} /\ rev'.pc = "idle" /\ rev'.failed /\ ~overlapped)
          => \A k \in 1..Len(rev.todo) : \A u \in transactions' :
                 SamePK(u, rev.todo[k]) => ~u.reverted
       /\ (/\ rev.pc # "idle" /\ rev'.pc = "idle" /\ ~rev'.failed
           /\ rev.calls = 2 /\ failures = 1 /\ ~overlapped)
          => /\ \A u \in transactions' : u.reverted
             /\ balances' = [k \in DOMAIN balances |-> InitBalance]]_vars

\* C29: Gate order: the outcome of a request is decided by the first failing
\* gate in the order shape, signature, lock, sender row, receiver row,
\* sufficiency: each rejection is given at its gate, a signature that does
\* not verify is answered BadSignature whatever the lock holds, a missing
\* sender row is answered as such whether or not the receiver row is there;
\* a request that ends before or at the lock gate leaves the lock map as it
\* is, and a request that ends after it has released the lock.
C29_GateOrder ==
    [][\A r \in Reqs :
        /\ (resp[r].status = 0 /\ resp'[r] = InvalidShape) => pc[r] = "idle"
        /\ (resp[r].status = 0 /\ resp'[r] = BadSignature) => pc[r] = "verify"
        /\ (resp[r].status = 0 /\ resp'[r] = Conflict) => pc[r] = "cas"
        /\ (resp[r].status = 0 /\ resp'[r] = SenderBalanceMissing) => pc[r] = "selS"
        /\ (resp[r].status = 0 /\ resp'[r] = ReceiverBalanceMissing) => pc[r] = "selR"
        /\ (resp[r].status = 0 /\ resp'[r] = InsufficientFunds) => pc[r] = "selR"
        /\ (resp[r].status = 0 /\ resp'[r].status = 200) => pc[r] = "selR2"
        /\ (pc[r] = "verify" /\ pc'[r] # "verify" /\ SignedTransfer_verify(body[r]) = "false")
           => resp'[r] = BadSignature /\ pc'[r] = "done"
        /\ (/\ pc[r] = "selS" /\ pc'[r] # "selS" /\ resp'[r] # InternalError
            /\ getBalancesForAddressAndToken(cl[r], Sender(r), TokenAddr(r)) = <<>>)
           => resp'[r] = SenderBalanceMissing
        /\ (pc'[r] # pc[r] /\ PcRank(pc[r]) < 3) => LOCK_MAP' = LOCK_MAP
        /\ (pc[r] = "cas" /\ pc'[r] = "done") => LOCK_MAP' = LOCK_MAP
        /\ (pc'[r] = "done" /\ PcRank(pc[r]) > 3 /\ PcRank(pc[r]) < 14)
           => lockKey(r) \notin DOMAIN LOCK_MAP']_vars

\* C30: Refund signing precedes locking and is unconditional: every request
\* that has passed signature verification and is at or past its lock attempt
\* carries the refund {chainId, tx, signedTx} signForRefund makes for it, signed
\* by the solver, whatever its later outcome; a request that failed the shape
\* or the signature check carries none.
C30_RefundBeforeLock ==
    \A r \in Reqs :
        /\ (PcRank(pc[r]) >= 3 /\ loc[r].tx_ts # -1)
           => /\ loc[r].refund = signForRefund(body[r], solver.private, loc[r].tx_ts)
              /\ loc[r].refund # NoRefund
              /\ loc[r].refund.chainId = body[r].targetChain.chainId
              /\ verifyRefund(loc[r].refund, solver.address) = "true"
        /\ (\/ pc[r] \in {"idle", "verify", "sign"}
            \/ resp[r] \in {InvalidShape, BadSignature}
            \/ isValidTransfer(body[r]) # "true"
            \/ SignedTransfer_verify(body[r]) # "true")
           => loc[r].refund = NoRefund

\* requests ended with Conflict and with a missing sender row, each with
\* its refund attached
C30_Witness ==
    \E r, q \in Reqs :
        /\ pc[r] = "done" /\ resp[r] = Conflict /\ loc[r].refund # NoRefund
        /\ pc[q] = "done" /\ resp[q].status \in {404, 403} /\ loc[q].refund # NoRefund

\* the calls that have returned and ran before call g
RanBefore(g) == {d \in Callers : calls[d].pc = "returned" /\ calls[d].ranAt < calls[g].ranAt}

\* d changed the entry of key k: a set, a compareAndSetValue that answered
\* true, a delete that answered true
Wrote(d, k) ==
    /\ calls[d].call.key = k
    /\ \/ calls[d].call.op = "set"
       \/ calls[d].call.op \in {"compareAndSetValue", "delete"} /\ calls[d].result

\* what the latest completed write among the calls W left under key k
LatestWrite(W, k) ==
    LET Ws == {d \in W : Wrote(d, k)}
    IN IF Ws = {} THEN undefined
       ELSE LET w == CHOOSE d \in Ws : \A e \in Ws : calls[e].ranAt <= calls[d].ranAt
            IN IF calls[w].call.op = "delete" THEN undefined
               ELSE [defined |-> TRUE, value |-> calls[w].call.value]

\* C31: Lock coordinator linearizability: the calls of one ThreadSafeMap run
\* one at a time in one order, and each answers from the latest completed
\* write before it: get returns the value last set (undefined after a
\* delete), has and delete answer true exactly when the key is there, size
\* counts the keys there, compareAndSetValue writes exactly when the key is
\* absent or the predicate accepts its value; and the map holds the latest
\* write of every key.
C31_Linearizable ==
    /\ \A g, d \in Callers :
          (g # d /\ calls[g].pc = "returned" /\ calls[d].pc = "returned")
          => calls[g].ranAt # calls[d].ranAt
    /\ \A g \in Callers :
          calls[g].pc = "returned" =>
             LET before == LatestWrite(RanBefore(g), calls[g].call.key)
                 op == calls[g].call.op
             IN /\ op = "get" => calls[g].got = before
                /\ op \in {"has", "delete"} => calls[g].result = before.defined
                /\ op = "size" =>
                      calls[g].count =
                          Cardinality({k \in MapKeys : LatestWrite(RanBefore(g), k).defined})
                /\ op = "compareAndSetValue" =>
                      calls[g].result =
                          (~before.defined \/ calls[g].call.compare[before.value])
    /\ \A k \in MapKeys :
          get(threadSafeMap, k) = LatestWrite({d \in Callers : calls[d].pc = "returned"}, k)

\* a set, then a delete of the key that answered true, then a has of the
\* key that answered false, by three callers
C31_Witness ==
    \E c, d, e \in Callers :
        /\ calls[c].pc = "returned" /\ calls[d].pc = "returned" /\ calls[e].pc = "returned"
        /\ calls[c].ranAt < calls[d].ranAt /\ calls[d].ranAt < calls[e].ranAt
        /\ calls[c].call.op = "set" /\ calls[d].call.op = "delete" /\ calls[e].call.op = "has"
        /\ calls[d].call.key = calls[c].call.key /\ calls[e].call.key = calls[c].call.key
        /\ calls[d].result /\ ~calls[e].result

\* the triple of the transaction the call is reverting is locked by a
\* transfer in flight
RevTxLocked ==
    /\ rev.todo # <<>>
    /\ \E r \in Reqs :
          /\ InSection(r)
          /\ lockKey(r) = RevTx(Rev).sender \o ":" \o RevTx(Rev).receiver \o ":" \o RevTx(Rev).token
          /\ lockKey(r) \in DOMAIN LOCK_MAP

\* C32: Revert bypasses the lock: no step of revertTransactions changes the
\* lock map, and the step of an iteration whose query has its connection is
\* taken whether or not the triple of its transaction is locked by a
\* transfer in flight.
C32_RevertBypassesLock ==
    /\ [][rev' # rev => LOCK_MAP' = LOCK_MAP]_vars
    /\ [](/\ rev.pc \in {"begin", "updS", "updR", "mark"}
          /\ Ready(Rev)
          /\ RevTxLocked
          => ENABLED (\/ RevertBegin(Rev) \/ RevertUpdateSender(Rev)
                      \/ RevertUpdateReceiver(Rev) \/ RevertMark(Rev)))

\* an iteration has written both balances and the flag of a transaction
\* whose triple a transfer in flight holds locked
C32_Witness ==
    /\ rev.pc = "commit"
    /\ RevTxLocked

\* C33: Unique transaction keys: the (timestamp, id) of a transfer about to
\* be recorded differs from that of every record in the ledger, so that the
\* INSERT of the commit never fails on a duplicate key, also for the same
\* signed payload sent again with the clock not advanced.
C33_UniqueKeys ==
    \A r \in Reqs :
        (pc[r] = "insert" /\ cl[r] # 0)
        => /\ \A t \in TxView(conn, transactions, cl[r]) : ~SamePK(t, TxRecord(r))
           /\ ~StmtError(cl[r], CurQuery(r))

\* the sum of the committed balances of token k
Supply(k) == SumOver({h \in Holders : <<h, k>> \in DOMAIN balances},
                     [h \in Holders |-> IF <<h, k>> \in DOMAIN balances
                                         THEN balances[<<h, k>>] ELSE 0])

\* C34: Total supply is conserved: with no request in flight and no call of
\* revertTransactions running, the balances of every token add up to what
\* they added up to initially, after any interleaving of transfers and
\* reverts.
C34_SupplyConserved ==
    (Quiescent /\ rev.pc = "idle")
    => \A k \in Tokens :
          Supply(k) = InitBalance * Cardinality({h \in Holders : <<h, k>> \in DOMAIN balances})


\* C35: Only the acquirer releases: a step removes a key from the lock map
\* only as the delete of one request, which attempted the lock on that very
\* key and was not refused, and which ends with that step, so that it deletes
\* at most once; the keys that other requests hold stay in the map, and no
\* other request is at work under the deleted key.
C35_OnlyAcquirerReleases ==
    /\ [][\A k \in DOMAIN LOCK_MAP :
            k \notin DOMAIN LOCK_MAP'
            => \E r \in Reqs :
                  /\ lockKey(r) = k
                  /\ PcRank(pc[r]) > 3
                  /\ resp[r] # Conflict
                  /\ pc[r] # "done"
                  /\ pc'[r] = "done"
                  /\ \A q \in Reqs \ {r} :
                        /\ pc'[q] = pc[q]
                        /\ InSection(q) => /\ lockKey(q) # k
                                           /\ lockKey(q) \in DOMAIN LOCK_MAP']_vars
    /\ [][\A r \in Reqs : pc[r] = "done" => pc'[r] = "done"]_vars
    /\ [][\A r \in Reqs :
            (pc'[r] # pc[r] /\ (resp'[r] = Conflict \/ PcRank(pc'[r]) <= 3))
            => DOMAIN LOCK_MAP \subseteq DOMAIN LOCK_MAP']_vars

\* a request has released the key it acquired and ended, while another is at
\* work under a different key, which is still in the map
C35_Witness ==
    \E r, q \in Reqs :
        /\ pc[r] = "done"
        /\ resp[r].status = 200
        /\ lockKey(r) \notin DOMAIN LOCK_MAP
        /\ InSection(q)
        /\ lockKey(q) # lockKey(r)
        /\ lockKey(q) \in DOMAIN LOCK_MAP

\* C36: Lock map shape: in every reachable state every entry of the lock map
\* has the value true, every key is the sender:receiver:tokenAddress of a
\* submitted transfer, and the map has no more entries than there are
\* requests that acquired a lock and have not yet finished.
C36_LockMapShape ==
    /\ \A k \in DOMAIN LOCK_MAP : LOCK_MAP[k] = TRUE
    /\ \A k \in DOMAIN LOCK_MAP : \E r \in Reqs : pc[r] # "idle" /\ lockKey(r) = k
    /\ Cardinality(DOMAIN LOCK_MAP) <= Cardinality({r \in Reqs : InSection(r)})

\* C37: Self-transfer is neutral: an accepted transfer whose sender and
\* receiver are the same address leaves the balance of that address in the
\* token as it was.  Stated for a request that is the only one submitted, so
\* that the balance before it is the initial one.
C37_SelfTransferNeutral ==
    \A r \in Reqs :
        (/\ resp[r].status = 200
         /\ Sender(r) = Receiver(r)
         /\ \A q \in Reqs \ {r} : pc[q] = "idle")
        => balances[<<Sender(r), TokenAddr(r)>>] = InitBalance

\* C38: Records correspond to accepted transfers: when no request is in
\* flight there are as many transaction records as transfers answered
\* Accepted; every record carries the sender, receiver, token and amount of a
\* submitted transfer and the timestamp and hash of the refund tx attached to
\* it; a request that ends in InvalidShape, BadSignature, Conflict, a missing
\* balance row or InsufficientFunds appends no record.
C38_RecordsMatchAccepted ==
    /\ [](Quiescent
          => Cardinality(transactions) = Cardinality({r \in Reqs : resp[r].status = 200}))
    /\ [](\A t \in AllRows :
            \E r \in Reqs :
               /\ loc[r].refund # NoRefund
               /\ t.sender = Sender(r)
               /\ t.receiver = Receiver(r)
               /\ t.token = TokenAddr(r)
               /\ t.amount = Amount(r)
               /\ t.tx_ts = loc[r].refund.tx.now
               /\ t.tx_id = loc[r].refund.tx.hash)
    /\ [][\A r \in Reqs :
            (pc'[r] # pc[r] /\ resp'[r].status \in {400, 403, 404, 409})
            => NoNewWrites]_vars

\* ------------------------------------------------------------------------
\* Transfers between two separate pairs of accounts
\* ------------------------------------------------------------------------
\* transfers a -> b and c -> n, of amounts below the balance and equal to it
DisjointPairs == {<<"a", "b">>, <<"c", "n">>}
DisjointBodies ==
    {SignedTransfer_sign(Unsigned(p[1], p[2], tok, amt), keyOf(p[1])) :
        p \in DisjointPairs, tok \in Tokens, amt \in {1, MaxAmount, InitBalance}}

\* the service over a store in which each of the four addresses has a row:
\* as it is after the module is loaded, with no connection opened, or while
\* GET requests in flight hold all connections of the pool but one
DisjointInit ==
    /\ pc = [r \in Reqs |-> "idle"]
    /\ body = [r \in Reqs |-> NoBody]
    /\ loc = [r \in Reqs |-> NoLoc]
    /\ resp = [r \in Reqs |-> NoResp]
    /\ LOCK_MAP = EmptyFn
    /\ balances = [k \in Addresses \X Tokens |-> InitBalance]
    /\ transactions = {}
    /\ conn \in {[c \in Clients |-> DeadConn],
                [c \in Clients |-> IF c < PoolMax THEN FreshConn ELSE DeadConn]}
    /\ idle = <<>>
    /\ pendingQueue = <<>>
    /\ cl = [u \in Users |-> 0]
    /\ now = 0
    /\ failures = 0
    /\ rev = NoRev
    /\ overlapped = FALSE
    /\ threadSafeMap = EmptyFn
    /\ mutex = <<>>
    /\ calls = [c \in Callers |-> NoCall]
    /\ signed = NoSigned

DisjointNext ==
    \/ \E r \in Reqs, b \in DisjointBodies : Submit(r, b)
    \/ \E r \in Reqs : VerifyDone(r)
    \/ \E r \in Reqs : SignDone(r)
    \/ \E r \in Reqs : CasDone(r)
    \/ \E r \in Reqs : SelectSender(r)
    \/ \E r \in Reqs : SelectReceiver(r)
    \/ \E r \in Reqs : Begin(r)
    \/ \E r \in Reqs : Insert(r)
    \/ \E r \in Reqs : UpdateSender(r)
    \/ \E r \in Reqs : UpdateReceiver(r)
    \/ \E r \in Reqs : Commit(r)
    \/ \E r \in Reqs : ReadSender(r)
    \/ \E r \in Reqs : ReadReceiver(r)
    \/ \E r \in Reqs : Unlock(r)
    \/ \E r \in Reqs : InsertDuplicate(r)
    \/ \E r \in Reqs : StoreFailure(r)
    \/ Tick

DisjointSpec == DisjointInit /\ [][DisjointNext]_vars

\* requests r and q have been submitted and share no account
Independent(r, q) ==
    /\ r # q
    /\ pc[r] # "idle"
    /\ pc[q] # "idle"
    /\ {Sender(r), Receiver(r)} \cap {Sender(q), Receiver(q)} = {}

\* the answer to request r run alone on the initial store
AloneReply(r) ==
    IF sufficient(Amount(r), InitBalance)
    THEN Accepted(InitBalance - Amount(r), InitBalance + Amount(r))
    ELSE InsufficientFunds

\* the balances after the requests of S, of separate accounts, have run one
\* after the other on the initial store
AloneBalances(S) ==
    [k \in Addresses \X Tokens |->
        IF \E r \in S : AloneReply(r).status = 200 /\ k = <<Sender(r), TokenAddr(r)>>
        THEN InitBalance - Amount(CHOOSE r \in S : k = <<Sender(r), TokenAddr(r)>>)
        ELSE IF \E r \in S : AloneReply(r).status = 200 /\ k = <<Receiver(r), TokenAddr(r)>>
        THEN InitBalance + Amount(CHOOSE r \in S : k = <<Receiver(r), TokenAddr(r)>>)
        ELSE InitBalance]

\* C39: Independent transfers do not interfere: of two requests that share no
\* account, run in any interleaving, neither is answered Conflict, and when
\* both have ended, a request whose own store queries all succeeded has the
\* answer, the balances of its two accounts and the record that it has when
\* run on its own, one after the other.
C39_Independent ==
    \A r, q \in Reqs :
        Independent(r, q)
        => /\ resp[q] # Conflict
           /\ (pc[r] = "done" /\ pc[q] = "done" /\ resp[q].status # 500)
              => /\ resp[q] = AloneReply(q)
                 /\ \A x \in {Sender(q), Receiver(q)} :
                       balances[<<x, TokenAddr(q)>>] = AloneBalances({q})[<<x, TokenAddr(q)>>]
                 /\ TxRecord(q) \in transactions <=> AloneReply(q).status = 200
====
